---- MODULE Spec2Model ----
(***************************************************************************)
(* Impact analysis action for Coalesce YML changes (DQLabs lineage).       *)
(* The model follows src/unnamed/part_000 (the action's entry point) and   *)
(* src/yml-parser.js.  Text is modelled as sequences of one-character      *)
(* strings so that case folding, quote stripping, substring search and     *)
(* template-literal concatenation are computed, not assumed.               *)
(***************************************************************************)
EXTENDS Integers, Sequences, FiniteSets, TLC

VARIABLES
  pc,            \* position of run(): the await it is suspended at
  inputs,        \* action inputs and event: files, blobs, options, URLs, PR
  changedColumns,\* result of extractChangedColumns
  tasks,         \* result of getTasks
  matchedTasks,  \* run: matchedTasks
  idx,           \* run: index of the task the for-loop is at (1-based)
  fileImpacts,   \* run: fileImpacts, insertion-ordered object as a sequence
  columnImpacts, \* run: columnImpacts, same representation
  accumulated,   \* fileImpacts/columnImpacts as they stood when the loop ended
  calls,         \* external calls issued so far, in order
  failed,        \* core.setFailed was called
  budget,        \* records and fields the lineage service may still return
  outcome,       \* the external call just answered and whether it succeeded
  received,      \* asset-level answers so far, one per task queried: whether
                 \* the call succeeded and the impact data it yielded
  summary,       \* run: summary (Markdown lines)
  jsonData,      \* run: comprehensiveJsonData
  thread,        \* comments on the pull request
  emitted,       \* job summary and impact_markdown output, once written
  arg,           \* input of the function under check (function specifications)
  res            \* its result

vars == <<pc, inputs, changedColumns, tasks, matchedTasks, idx, fileImpacts,
          columnImpacts, accumulated, calls, failed, budget, outcome, received,
          summary, jsonData, thread, emitted, arg, res>>

----------------------------------------------------------------------------
(* Bounds of the model.                                                    *)
MaxRecords == 2    \* asset records and table fields the lineage service
                   \* returns in one run, all responses together
MaxLen == 4        \* characters of a lineage field name
MaxTasks == 3      \* tasks the task service lists
MaxCols == 3       \* columns of one revision of a .yml file
MaxKeys == 3       \* comma-separated entries of the option string
MaxRows == 1       \* asset records on each side of a file's impacts
MaxRuns == 3       \* runs of the workflow on one pull request

----------------------------------------------------------------------------
(* Strings.                                                                *)
Upper == <<"A","B","C","D","E","F","G","H","I","J","K","L","M",
           "N","O","P","Q","R","S","T","U","V","W","X","Y","Z">>
Lower == <<"a","b","c","d","e","f","g","h","i","j","k","l","m",
           "n","o","p","q","r","s","t","u","v","w","x","y","z">>

toLowerCaseChar(c) ==
  IF \E i \in DOMAIN Upper : Upper[i] = c
    THEN Lower[CHOOSE i \in DOMAIN Upper : Upper[i] = c]
    ELSE c

\* String.prototype.toLowerCase
toLowerCase(s) == [i \in 1..Len(s) |-> toLowerCaseChar(s[i])]

\* String.prototype.includes
includes(s, t) ==
  \E i \in 0..(Len(s) - Len(t)) : SubSeq(s, i + 1, i + Len(t)) = t

\* String.prototype.endsWith
endsWith(s, t) ==
  Len(t) <= Len(s) /\ SubSeq(s, Len(s) - Len(t) + 1, Len(s)) = t

\* s.replace(/[...]/g, '') with the class of backtick, double and single quote
\* the backtick character, which a TLA+ string literal cannot hold
Backtick == "backtick"
QuoteChars == {Backtick, "\"", "'"}
IsNotQuote(c) == c \notin QuoteChars
stripQuotes(s) == SelectSeq(s, IsNotQuote)

\* Array.prototype.includes
arrIncludes(a, x) == \E i \in DOMAIN a : a[i] = x

\* Array.prototype.map over a sequence, with the image given as a function
RECURSIVE Concat(_)
Concat(ss) == IF ss = <<>> THEN <<>> ELSE Head(ss) \o Concat(Tail(ss))

\* all sequences over S of length at most n
SeqsUpTo(S, n) == UNION {[1..k -> S] : k \in 0..n}

DotYml == <<".","y","m","l">>
Dash == <<"-">>

----------------------------------------------------------------------------
(* Version-control content and the YML parser (src/yml-parser.js).         *)
(* A blob is what getFileContent returns: null, the empty string, or text; *)
(* text carries what js-yaml parses out of it (root name, column names).   *)
NoString == <<>>
NullBlob == [kind |-> "null", name |-> NoString, columns |-> <<>>]
EmptyBlob == [kind |-> "empty", name |-> NoString, columns |-> <<>>]
TextBlob(name, columns) == [kind |-> "text", name |-> name, columns |-> columns]

\* JavaScript truthiness of a blob: null and "" are falsy
truthy(content) == content.kind = "text"

IsNamed(colName) == colName # NoString
extractColumnsFromYML(content, filePath) ==
  IF ~truthy(content) THEN <<>> ELSE SelectSeq(content.columns, IsNamed)

\* path.basename(filePath, path.extname(filePath))
basename(filePath) ==
  LET slashes == {i \in DOMAIN filePath : filePath[i] = "/"}
      from == IF slashes = {} THEN 1
              ELSE (CHOOSE i \in slashes : \A j \in slashes : j <= i) + 1
      base == SubSeq(filePath, from, Len(filePath))
      dots == {i \in DOMAIN base : base[i] = "." /\ i > 1}
      upto == IF dots = {} THEN Len(base)
              ELSE (CHOOSE i \in dots : \A j \in dots : j <= i) - 1
  IN SubSeq(base, 1, upto)

extractModelNameFromYML(content, filePath) ==
  IF truthy(content) /\ content.name # NoString
    THEN content.name
    ELSE basename(filePath)

IsYml(f) == f # NoString /\ endsWith(f, DotYml)

\* one iteration of the loop of extractChangedColumns (lines 267-311)
fileDelta(file, blobs) ==
  LET baseContent == blobs[file].base
      headContent == blobs[file].head
      baseCols == IF truthy(baseContent)
                    THEN extractColumnsFromYML(baseContent, file) ELSE <<>>
      headCols == extractColumnsFromYML(headContent, file)
      NotInBase(c) == ~arrIncludes(baseCols, c)
      NotInHead(c) == ~arrIncludes(headCols, c)
      addedCols == SelectSeq(headCols, NotInBase)
      removedCols == SelectSeq(baseCols, NotInHead)
  IN IF ~truthy(headContent)
       THEN [added |-> <<>>, removed |-> <<>>]
       ELSE [added |-> [i \in DOMAIN addedCols |->
                          [column |-> addedCols[i], file |-> file]],
             removed |-> [i \in DOMAIN removedCols |->
                          [column |-> removedCols[i], file |-> file]]]

RECURSIVE extractChangedColumns(_, _)
extractChangedColumns(changedFiles, blobs) ==
  IF changedFiles = <<>> THEN [added |-> <<>>, removed |-> <<>>]
  ELSE LET file == Head(changedFiles)
           rest == extractChangedColumns(Tail(changedFiles), blobs)
       IN IF ~IsYml(file) THEN rest
          ELSE LET d == fileDelta(file, blobs)
               IN [added |-> d.added \o rest.added,
                   removed |-> d.removed \o rest.removed]

\* lines 352-396: changedModels and modelNameToFileMap
modelOfFile(file, blobs) ==
  LET headContent == blobs[file].head
      fsContent == blobs[file].disk
  IN IF truthy(headContent) THEN extractModelNameFromYML(headContent, file)
     ELSE IF truthy(fsContent) THEN extractModelNameFromYML(fsContent, file)
     ELSE NoString

changedModelsOf(changedFiles, blobs) ==
  LET yml == SelectSeq(changedFiles, IsYml)
      names == [i \in DOMAIN yml |-> modelOfFile(yml[i], blobs)]
      loop[i \in 0..Len(yml)] ==
        IF i = 0 THEN [changedModels |-> <<>>, modelNameToFileMap |-> <<>>]
        ELSE LET p == loop[i - 1]
             IN IF names[i] = NoString THEN p
                ELSE [changedModels |-> Append(p.changedModels, names[i]),
                      modelNameToFileMap |->
                        Append(p.modelNameToFileMap,
                               [model |-> names[i], file |-> yml[i]])]
  IN loop[Len(yml)]

\* modelNameToFileMap[model]: the last assignment to the key wins
mapLookup(map, model) ==
  LET hits == {i \in DOMAIN map : map[i].model = model}
  IN IF hits = {} THEN NoString
     ELSE map[CHOOSE i \in hits : \A j \in hits : j <= i].file

----------------------------------------------------------------------------
(* Task matching (lines 404-435).                                          *)
CoalescePipeline ==
  <<"c","o","a","l","e","s","c","e","_","p","i","p","e","l","i","n","e">>

IsCoalesce(task) ==
  LET connType == toLowerCase(task.connection_type)
  IN connType = CoalescePipeline \/ includes(connType, CoalescePipeline)

coalesceTasks(taskList) == SelectSeq(taskList, IsCoalesce)

\* variant: line 424 comparing the names as written
exactCaseModelOf(task, changedModels) ==
  LET hits == {i \in DOMAIN changedModels : changedModels[i] = task.name}
  IN IF hits = {} THEN NoString
     ELSE changedModels[CHOOSE i \in hits : \A j \in hits : i <= j]

\* changedModels.find(model => model.toLowerCase() === name.toLowerCase())
matchingModelOf(task, changedModels) ==
  LET hits == {i \in DOMAIN changedModels :
                 toLowerCase(changedModels[i]) = toLowerCase(task.name)}
  IN IF hits = {} THEN NoString
     ELSE changedModels[CHOOSE i \in hits : \A j \in hits : i <= j]

filePathOf(task, changedModels, modelNameToFileMap) ==
  LET matchingModel == matchingModelOf(task, changedModels)
  IN IF matchingModel # NoString
       THEN mapLookup(modelNameToFileMap, matchingModel)
       ELSE NoString

matchTasks(taskList, changedModels, modelNameToFileMap) ==
  LET NameMatches(task) ==
        \E i \in DOMAIN changedModels :
          toLowerCase(changedModels[i]) = toLowerCase(task.name)
      named == SelectSeq(coalesceTasks(taskList), NameMatches)
      mapped == [i \in DOMAIN named |->
                  [name |-> named[i].name,
                   connection_type |-> named[i].connection_type,
                   asset_id |-> named[i].asset_id,
                   entity |-> named[i].task_id,
                   filePath |-> filePathOf(named[i], changedModels,
                                           modelNameToFileMap)]]
      HasFile(task) == task.filePath # NoString
  IN SelectSeq(mapped, HasFile)

----------------------------------------------------------------------------
(* Lineage queries (lines 94-255).  A response is what axios resolves to,  *)
(* or a rejection (ok = FALSE).  Each getter returns its value together    *)
(* with whether an exception leaves it.                                    *)
getTasks(response) ==
  IF response.ok THEN [thrown |-> FALSE, value |-> response.data]
  ELSE [thrown |-> FALSE, value |-> <<>>]

\* variant: the catch of lines 151-154 rethrows instead of returning empty data
rethrowImpactAnalysisData(response) ==
  IF response.ok
    THEN [thrown |-> FALSE,
          value |-> [direct |-> response.direct, indirect |-> response.indirect]]
    ELSE [thrown |-> TRUE, value |-> [direct |-> <<>>, indirect |-> <<>>]]

getImpactAnalysisData(response) ==
  IF response.ok
    THEN [thrown |-> FALSE,
          value |-> [direct |-> response.direct, indirect |-> response.indirect]]
    ELSE [thrown |-> FALSE, value |-> [direct |-> <<>>, indirect |-> <<>>]]

\* lines 206-222, for one changed column
matchesColumn(fieldNameRaw, changedCol) ==
  LET fieldName == toLowerCase(fieldNameRaw)
      changedColName == toLowerCase(changedCol)
      unquotedFieldName == stripQuotes(fieldName)
      unquotedChangedCol == stripQuotes(changedColName)
  IN \/ fieldName = changedColName
     \/ includes(fieldName, changedColName)
     \/ includes(changedColName, fieldName)
     \/ unquotedFieldName = unquotedChangedCol

\* changedColumns.some(...): a field without a name counts as ''
isImpacted(fieldNameRaw, changedCols) ==
  \E i \in DOMAIN changedCols : matchesColumn(fieldNameRaw, changedCols[i])

columnRecord(table, field) ==
  [table_name |-> table.name, column_name |-> field.name,
   column_id |-> field.id, redirect_id |-> table.redirect_id,
   connection_id |-> table.connection_id, asset_group |-> table.asset_group,
   is_transform |-> "undefined"]

\* lines 195-246: the impacted fields of every table, in response order
columnImpactsOf(tables, changedCols) ==
  LET perTable(table) ==
        LET Hit(field) == isImpacted(field.name, changedCols)
            hits == SelectSeq(table.fields, Hit)
        IN [i \in DOMAIN hits |-> columnRecord(table, hits[i])]
  IN Concat([t \in DOMAIN tables |-> perTable(tables[t])])

getColumnLevelImpactAnalysis(response, changedCols) ==
  IF response.ok
    THEN [thrown |-> FALSE, value |-> columnImpactsOf(response.tables, changedCols)]
    ELSE [thrown |-> FALSE, value |-> <<>>]

----------------------------------------------------------------------------
(* The accumulators (lines 446-568).  A JavaScript object keyed by file    *)
(* path is a sequence of entries with distinct filePath, in insertion      *)
(* order; assigning to an existing key replaces the entry in place.        *)
objHas(obj, key) == \E i \in DOMAIN obj : obj[i].filePath = key
objIndex(obj, key) == CHOOSE i \in DOMAIN obj : obj[i].filePath = key
objGet(obj, key) == obj[objIndex(obj, key)]
objSet(obj, key, entry) ==
  IF objHas(obj, key) THEN [obj EXCEPT ![objIndex(obj, key)] = entry]
  ELSE Append(obj, entry)

\* lines 451-456
initFileImpacts(matched) ==
  LET loop[i \in 0..Len(matched)] ==
        IF i = 0 THEN <<>>
        ELSE objSet(loop[i - 1], matched[i].filePath,
                    [filePath |-> matched[i].filePath, direct |-> <<>>,
                     indirect |-> <<>>, taskName |-> matched[i].name])
  IN loop[Len(matched)]

\* lines 457-462
initColumnImpacts(matched) ==
  LET loop[i \in 0..Len(matched)] ==
        IF i = 0 THEN <<>>
        ELSE objSet(loop[i - 1], matched[i].filePath,
                    [filePath |-> matched[i].filePath, direct |-> <<>>,
                     indirect |-> <<>>, taskName |-> matched[i].name,
                     changedColumns |-> <<>>])
  IN loop[Len(matched)]

\* variant: line 481 without the indirectNameSet test
filterSelfOnly(impactData, task) ==
  LET Keep(table) == table.name # task.name
  IN SelectSeq(impactData.direct, Keep)

\* lines 475-483
filteredDirectImpact(impactData, task) ==
  LET indirectNameSet ==
        {impactData.indirect[i].name : i \in DOMAIN impactData.indirect}
      Keep(table) == table.name \notin indirectNameSet /\ table.name # task.name
  IN SelectSeq(impactData.direct, Keep)

\* lines 488-490
filteredInDirectImpact(impactData, task) ==
  LET Keep(table) == table.name # task.name
  IN SelectSeq(impactData.indirect, Keep)

\* lines 485 and 492
pushAssetImpacts(impacts, task, impactData) ==
  LET e == objGet(impacts, task.filePath)
  IN objSet(impacts, task.filePath,
            [e EXCEPT !.direct = @ \o filteredDirectImpact(impactData, task),
                      !.indirect = @ \o filteredInDirectImpact(impactData, task)])

\* lines 522-525
taskChangedColumns(delta, task) ==
  LET Mine(col) == col.file = task.filePath
      a == SelectSeq(delta.added, Mine)
      r == SelectSeq(delta.removed, Mine)
  IN [i \in DOMAIN a |-> a[i].column] \o [i \in DOMAIN r |-> r[i].column]

\* lines 543-545 and 561-563
filteredColumnImpact(columnImpact, task) ==
  LET Keep(column) == column.table_name # task.name
  IN SelectSeq(columnImpact, Keep)

----------------------------------------------------------------------------
(* Reconciliation (lines 570-623).                                         *)
uniqueKey(item) ==
  item.name \o Dash \o item.connection_id \o Dash \o item.asset_name

columnUniqueKey(item) ==
  item.table_name \o Dash \o item.column_name \o Dash \o item.connection_id

\* variant: lines 574-580 left out
removeNothing(impacts) == impacts

\* lines 574-580
removeDirectFromIndirect(impacts) ==
  LET directKeys == {uniqueKey(impacts.direct[i]) : i \in DOMAIN impacts.direct}
      Keep(item) == uniqueKey(item) \notin directKeys
  IN [impacts EXCEPT !.indirect = SelectSeq(impacts.indirect, Keep)]

\* variant: lines 583-591 keep every record
keepAll(arr) == arr

\* variant: lines 583-591 collect the kept records at the front
dedupUnshift(arr) ==
  LET loop[i \in 0..Len(arr)] ==
        IF i = 0 THEN [out |-> <<>>, seen |-> {}]
        ELSE LET p == loop[i - 1]
                 key == uniqueKey(arr[i])
             IN IF key \in p.seen THEN p
                ELSE [out |-> <<arr[i]>> \o p.out, seen |-> p.seen \cup {key}]
  IN loop[Len(arr)].out

\* lines 583-591
dedup(arr) ==
  LET loop[i \in 0..Len(arr)] ==
        IF i = 0 THEN [out |-> <<>>, seen |-> {}]
        ELSE LET p == loop[i - 1]
                 key == uniqueKey(arr[i])
             IN IF key \in p.seen THEN p
                ELSE [out |-> Append(p.out, arr[i]), seen |-> p.seen \cup {key}]
  IN loop[Len(arr)].out

\* lines 601-607
columnRemoveDirectFromIndirect(impacts) ==
  LET directKeys ==
        {columnUniqueKey(impacts.direct[i]) : i \in DOMAIN impacts.direct}
      Keep(item) == columnUniqueKey(item) \notin directKeys
  IN [impacts EXCEPT !.indirect = SelectSeq(impacts.indirect, Keep)]

\* lines 610-618
columnDedup(arr) ==
  LET loop[i \in 0..Len(arr)] ==
        IF i = 0 THEN [out |-> <<>>, seen |-> {}]
        ELSE LET p == loop[i - 1]
                 key == columnUniqueKey(arr[i])
             IN IF key \in p.seen THEN p
                ELSE [out |-> Append(p.out, arr[i]), seen |-> p.seen \cup {key}]
  IN loop[Len(arr)].out

\* lines 574-596 applied to every file
reconcileFiles(impacts) ==
  [f \in DOMAIN impacts |->
     LET e == removeDirectFromIndirect(impacts[f])
     IN [e EXCEPT !.direct = dedup(e.direct), !.indirect = dedup(e.indirect)]]

\* lines 601-623 applied to every file
reconcileColumns(impacts) ==
  [f \in DOMAIN impacts |->
     LET e == columnRemoveDirectFromIndirect(impacts[f])
     IN [e EXCEPT !.direct = columnDedup(e.direct),
                  !.indirect = columnDedup(e.indirect)]]

----------------------------------------------------------------------------
(* Output options (lines 27-59).                                           *)
\* String.prototype.split(',')
split(s, sep) ==
  LET loop[i \in 0..Len(s)] ==
        IF i = 0 THEN <<NoString>>
        ELSE LET p == loop[i - 1]
             IN IF s[i] = sep THEN Append(p, NoString)
                ELSE [p EXCEPT ![Len(p)] = Append(@, s[i])]
  IN loop[Len(s)]

\* String.prototype.trim
WhiteSpace == {" ", "\t", "\n"}
trim(s) ==
  LET solid == {i \in DOMAIN s : s[i] \notin WhiteSpace}
  IN IF solid = {} THEN NoString
     ELSE SubSeq(s, CHOOSE i \in solid : \A j \in solid : i <= j,
                    CHOOSE i \in solid : \A j \in solid : j <= i)

kDirectColumnCount ==
  <<"d","i","r","e","c","t","_","c","o","l","u","m","n","_","c","o","u","n","t">>
kIndirectColumnCount ==
  <<"i","n","d","i","r","e","c","t","_","c","o","l","u","m","n","_","c","o","u","n","t">>
kDirectAssetCount ==
  <<"d","i","r","e","c","t","_","a","s","s","e","t","_","c","o","u","n","t">>
kIndirectAssetCount ==
  <<"i","n","d","i","r","e","c","t","_","a","s","s","e","t","_","c","o","u","n","t">>
kDirectColumnList ==
  <<"d","i","r","e","c","t","_","c","o","l","u","m","n","_","l","i","s","t">>
kIndirectColumnList ==
  <<"i","n","d","i","r","e","c","t","_","c","o","l","u","m","n","_","l","i","s","t">>
kDirectAssetList ==
  <<"d","i","r","e","c","t","_","a","s","s","e","t","_","l","i","s","t">>
kIndirectAssetList ==
  <<"i","n","d","i","r","e","c","t","_","a","s","s","e","t","_","l","i","s","t">>
kYmlColumnChanges ==
  <<"y","m","l","_","c","o","l","u","m","n","_","c","h","a","n","g","e","s">>

AllEnabled ==
  [showDirectColumnCount |-> TRUE, showIndirectColumnCount |-> TRUE,
   showDirectAssetCount |-> TRUE, showIndirectAssetCount |-> TRUE,
   showDirectColumnList |-> TRUE, showIndirectColumnList |-> TRUE,
   showDirectAssetList |-> TRUE, showIndirectAssetList |-> TRUE,
   showYmlColumnChanges |-> TRUE]

\* variant: a string without any recognized key falls back to the defaults
parseKeysOrDefault(keysString) ==
  LET parts == split(keysString, ",")
      keys == [i \in DOMAIN parts |-> toLowerCase(trim(parts[i]))]
      known == {kDirectColumnCount, kIndirectColumnCount, kDirectAssetCount,
                kIndirectAssetCount, kDirectColumnList, kIndirectColumnList,
                kDirectAssetList, kIndirectAssetList, kYmlColumnChanges}
  IN IF \A i \in DOMAIN keys : keys[i] \notin known THEN AllEnabled
     ELSE [showDirectColumnCount |-> arrIncludes(keys, kDirectColumnCount),
           showIndirectColumnCount |-> arrIncludes(keys, kIndirectColumnCount),
           showDirectAssetCount |-> arrIncludes(keys, kDirectAssetCount),
           showIndirectAssetCount |-> arrIncludes(keys, kIndirectAssetCount),
           showDirectColumnList |-> arrIncludes(keys, kDirectColumnList),
           showIndirectColumnList |-> arrIncludes(keys, kIndirectColumnList),
           showDirectAssetList |-> arrIncludes(keys, kDirectAssetList),
           showIndirectAssetList |-> arrIncludes(keys, kIndirectAssetList),
           showYmlColumnChanges |-> arrIncludes(keys, kYmlColumnChanges)]

\* core.getInput(...) || "" makes an absent input the empty string
parseConfigurableKeys(keysString) ==
  IF keysString = NoString THEN AllEnabled
  ELSE LET parts == split(keysString, ",")
           keys == [i \in DOMAIN parts |-> toLowerCase(trim(parts[i]))]
       IN [showDirectColumnCount |-> arrIncludes(keys, kDirectColumnCount),
           showIndirectColumnCount |-> arrIncludes(keys, kIndirectColumnCount),
           showDirectAssetCount |-> arrIncludes(keys, kDirectAssetCount),
           showIndirectAssetCount |-> arrIncludes(keys, kIndirectAssetCount),
           showDirectColumnList |-> arrIncludes(keys, kDirectColumnList),
           showIndirectColumnList |-> arrIncludes(keys, kIndirectColumnList),
           showDirectAssetList |-> arrIncludes(keys, kDirectAssetList),
           showIndirectAssetList |-> arrIncludes(keys, kIndirectAssetList),
           showYmlColumnChanges |-> arrIncludes(keys, kYmlColumnChanges)]

----------------------------------------------------------------------------
(* URL resolution (lines 625-706).  A base URL is absent (''), malformed   *)
(* (new URL throws) or valid; a resolved URL keeps the base's origin and   *)
(* query and replaces its path.  An absent id is the empty string; in a    *)
(* template literal it prints as "undefined".                              *)
NoId == ""
Placeholder == [href |-> "#", origin |-> "", pathname |-> <<>>, search |-> ""]
Resolved(baseUrl, pathname) ==
  [href |-> "url", origin |-> baseUrl.origin, pathname |-> pathname,
   search |-> baseUrl.search]
printId(id) == IF id = NoId THEN "undefined" ELSE id
isTrue(flag) == flag = "true"

\* variant: line 632 gives up only when both ids are missing
constructItemUrlBothMissing(item, baseUrl) ==
  IF baseUrl.kind = "absent" THEN Placeholder
  ELSE IF baseUrl.kind = "malformed" THEN Placeholder
  ELSE IF item.connection_id = NoString /\ item.redirect_id = NoId
    THEN Placeholder
  ELSE IF item.asset_group = "pipeline"
    THEN IF isTrue(item.is_transform)
           THEN Resolved(baseUrl, <<"observe", "pipeline", "transformation",
                                    printId(item.redirect_id), "run">>)
           ELSE Resolved(baseUrl, <<"observe", "pipeline", "task",
                                    printId(item.redirect_id), "run">>)
  ELSE IF item.asset_group = "report"
    THEN Resolved(baseUrl, <<"observe", "report", "worksheet",
                             printId(item.redirect_id), "overview">>)
  ELSE IF item.asset_group = "data"
    THEN Resolved(baseUrl, <<"observe", "data", printId(item.redirect_id),
                             "measures">>)
  ELSE Placeholder

constructItemUrl(item, baseUrl) ==
  IF baseUrl.kind = "absent" THEN Placeholder
  ELSE IF baseUrl.kind = "malformed" THEN Placeholder
  ELSE IF item.connection_id = NoString \/ item.redirect_id = NoId
    THEN Placeholder
  ELSE IF item.asset_group = "pipeline"
    THEN IF isTrue(item.is_transform)
           THEN Resolved(baseUrl, <<"observe", "pipeline", "transformation",
                                    printId(item.redirect_id), "run">>)
           ELSE Resolved(baseUrl, <<"observe", "pipeline", "task",
                                    printId(item.redirect_id), "run">>)
  ELSE IF item.asset_group = "report"
    THEN Resolved(baseUrl, <<"observe", "report", "worksheet",
                             printId(item.redirect_id), "overview">>)
  ELSE IF item.asset_group = "data"
    THEN Resolved(baseUrl, <<"observe", "data", printId(item.redirect_id),
                             "measures">>)
  ELSE Placeholder

\* what a caller would see if new URL(baseUrl) threw past the resolver
Thrown == [href |-> "TypeError", origin |-> "", pathname |-> <<>>, search |-> ""]

\* variant: lines 670-705 without the try and its catch
constructColumnUrlUncaught(columnItem, baseUrl) ==
  IF baseUrl.kind = "absent" THEN Placeholder
  ELSE IF baseUrl.kind = "malformed" THEN Thrown
  ELSE IF columnItem.asset_group = "pipeline"
    THEN IF isTrue(columnItem.is_transform)
           THEN Resolved(baseUrl, <<"observe", "pipeline", "transformation",
                                    printId(columnItem.redirect_id), "run">>)
           ELSE Resolved(baseUrl, <<"observe", "pipeline", "task",
                                    printId(columnItem.redirect_id), "run">>)
  ELSE IF columnItem.asset_group = "data"
    THEN Resolved(baseUrl, <<"observe", "data",
                             printId(columnItem.redirect_id), "measures">>)
  ELSE IF columnItem.connection_id = NoString \/ columnItem.redirect_id = NoId
    THEN Placeholder
  ELSE Resolved(baseUrl, <<"observe", "pipeline", "task",
                           printId(columnItem.redirect_id), "run">>)

\* variant: line 691 tests the redirect_id alone
constructColumnUrlRedirectOnly(columnItem, baseUrl) ==
  IF baseUrl.kind = "absent" THEN Placeholder
  ELSE IF baseUrl.kind = "malformed" THEN Placeholder
  ELSE IF columnItem.asset_group = "pipeline"
    THEN IF isTrue(columnItem.is_transform)
           THEN Resolved(baseUrl, <<"observe", "pipeline", "transformation",
                                    printId(columnItem.redirect_id), "run">>)
           ELSE Resolved(baseUrl, <<"observe", "pipeline", "task",
                                    printId(columnItem.redirect_id), "run">>)
  ELSE IF columnItem.asset_group = "data"
    THEN Resolved(baseUrl, <<"observe", "data",
                             printId(columnItem.redirect_id), "measures">>)
  ELSE IF columnItem.redirect_id = NoId
    THEN Placeholder
  ELSE Resolved(baseUrl, <<"observe", "pipeline", "task",
                           printId(columnItem.redirect_id), "run">>)

constructColumnUrl(columnItem, baseUrl) ==
  IF baseUrl.kind = "absent" THEN Placeholder
  ELSE IF baseUrl.kind = "malformed" THEN Placeholder
  ELSE IF columnItem.asset_group = "pipeline"
    THEN IF isTrue(columnItem.is_transform)
           THEN Resolved(baseUrl, <<"observe", "pipeline", "transformation",
                                    printId(columnItem.redirect_id), "run">>)
           ELSE Resolved(baseUrl, <<"observe", "pipeline", "task",
                                    printId(columnItem.redirect_id), "run">>)
  ELSE IF columnItem.asset_group = "data"
    THEN Resolved(baseUrl, <<"observe", "data",
                             printId(columnItem.redirect_id), "measures">>)
  ELSE IF columnItem.connection_id = NoString \/ columnItem.redirect_id = NoId
    THEN Placeholder
  ELSE Resolved(baseUrl, <<"observe", "pipeline", "task",
                           printId(columnItem.redirect_id), "run">>)

----------------------------------------------------------------------------
(* The report (lines 709-913).  Markdown is a sequence of lines; a line    *)
(* has a kind, a text, a number and items, unused ones left empty.         *)
Line(kind, text, n, items) == [kind |-> kind, text |-> text, n |-> n, items |-> items]
H2(text) == Line("h2", text, 0, <<>>)
H3(text) == Line("h3", text, 0, <<>>)
Marker == H2("Impact Analysis Report")

sUnknown == <<"U","n","k","n","o","w","n">>
orUnknown(name) == IF name = NoString THEN sUnknown ELSE name

\* Object.values(obj).reduce((sum, impacts) => sum + impacts[side].length, 0)
totalOf(obj, side) ==
  LET loop[i \in 0..Len(obj)] ==
        IF i = 0 THEN 0 ELSE loop[i - 1] + Len(obj[i][side])
  IN loop[Len(obj)]

\* every record of one side, file by file
allOf(obj, side) == Concat([f \in DOMAIN obj |-> obj[f][side]])

assetEntry(model, baseUrl) ==
  LET url == constructItemUrl(model, baseUrl)
  IN [link |-> model.connection_id # NoString /\ url.href # "#",
      label |-> <<orUnknown(model.name)>>, url |-> url]

columnEntry(column, baseUrl) ==
  LET url == constructColumnUrl(column, baseUrl)
  IN [link |-> column.connection_id # NoString /\ url.href # "#",
      label |-> <<orUnknown(column.table_name), orUnknown(column.column_name)>>,
      url |-> url]

\* variant: a detail list is rendered even when it has no entry
assetListAlways(obj, side, title, baseUrl) ==
  LET all == allOf(obj, side)
      entries == [i \in DOMAIN all |-> assetEntry(all[i], baseUrl)]
  IN <<Line("details", title, Len(entries), entries)>>

assetList(obj, side, title, baseUrl) ==
  LET all == allOf(obj, side)
      entries == [i \in DOMAIN all |-> assetEntry(all[i], baseUrl)]
  IN IF entries = <<>> THEN <<>>
     ELSE <<Line("details", title, Len(entries), entries)>>

columnList(obj, side, title, baseUrl) ==
  LET all == allOf(obj, side)
      entries == [i \in DOMAIN all |-> columnEntry(all[i], baseUrl)]
  IN IF entries = <<>> THEN <<>>
     ELSE <<Line("details", title, Len(entries), entries)>>

\* lines 723-786
assetSection(impacts, keys, baseUrl) ==
  IF ~(keys.showDirectAssetCount \/ keys.showIndirectAssetCount
       \/ keys.showDirectAssetList \/ keys.showIndirectAssetList)
    THEN <<>>
    ELSE <<H3("Asset level Impacts")>>
      \o (IF keys.showDirectAssetCount
            THEN <<Line("count", "Total Directly Impacted",
                        totalOf(impacts, "direct"), <<>>)>>
            ELSE <<>>)
      \o (IF keys.showIndirectAssetCount
            THEN <<Line("count", "Total Indirectly Impacted",
                        totalOf(impacts, "indirect"), <<>>)>>
            ELSE <<>>)
      \o (IF keys.showDirectAssetList
            THEN assetList(impacts, "direct", "Directly Impacted Assets", baseUrl)
            ELSE <<>>)
      \o (IF keys.showIndirectAssetList
            THEN assetList(impacts, "indirect", "Indirectly Impacted Assets",
                           baseUrl)
            ELSE <<>>)

\* lines 788-851
columnSection(impacts, keys, baseUrl) ==
  IF ~(keys.showDirectColumnCount \/ keys.showIndirectColumnCount
       \/ keys.showDirectColumnList \/ keys.showIndirectColumnList)
    THEN <<>>
    ELSE <<H3("Column level Impacts")>>
      \o (IF keys.showDirectColumnCount
            THEN <<Line("count", "Total Directly Impacted Columns",
                        totalOf(impacts, "direct"), <<>>)>>
            ELSE <<>>)
      \o (IF keys.showIndirectColumnCount
            THEN <<Line("count", "Total Indirectly Impacted Columns",
                        totalOf(impacts, "indirect"), <<>>)>>
            ELSE <<>>)
      \o (IF keys.showDirectColumnList
            THEN columnList(impacts, "direct", "Directly Impacted Columns",
                            baseUrl)
            ELSE <<>>)
      \o (IF keys.showIndirectColumnList
            THEN columnList(impacts, "indirect", "Indirectly Impacted Columns",
                            baseUrl)
            ELSE <<>>)

\* lines 709-854
buildNewAnalysisReport(impacts, colImpacts, changedFiles, keys, baseUrl) ==
  <<Marker, H3("Changed Files")>>
  \o (IF changedFiles # <<>>
        THEN [i \in DOMAIN changedFiles |-> Line("file", "", 0, <<changedFiles[i]>>)]
        ELSE <<Line("nofiles", "No files changed", 0, <<>>)>>)
  \o assetSection(impacts, keys, baseUrl)
  \o columnSection(colImpacts, keys, baseUrl)

\* lines 858-903: the column names added and removed over all .yml files
processColumnChanges(changedFiles, blobs) ==
  LET d == extractChangedColumns(changedFiles, blobs)
  IN [added |-> [i \in DOMAIN d.added |-> d.added[i].column],
      removed |-> [i \in DOMAIN d.removed |-> d.removed[i].column]]

\* lines 906-913
summaryOf(impacts, colImpacts, changedFiles, yml, keys, baseUrl) ==
  buildNewAnalysisReport(impacts, colImpacts, changedFiles, keys, baseUrl)
  \o (IF keys.showYmlColumnChanges
        THEN <<H3("YML Column Changes"),
               Line("added", "Added columns", Len(yml.added), yml.added),
               Line("removed", "Removed columns", Len(yml.removed), yml.removed)>>
        ELSE <<>>)

----------------------------------------------------------------------------
(* The structured mirror (lines 915-1010).                                 *)
assetRows(obj, side, baseUrl) ==
  Concat([f \in DOMAIN obj |->
    [i \in DOMAIN obj[f][side] |->
       [file_path |-> obj[f].filePath,
        model_name |-> obj[f][side][i].name,
        task_name |-> obj[f].taskName,
        redirect_url |-> constructItemUrl(obj[f][side][i], baseUrl)]]])

columnRows(obj, side, baseUrl) ==
  Concat([f \in DOMAIN obj |->
    [i \in DOMAIN obj[f][side] |->
       [file_path |-> obj[f].filePath,
        table_name |-> obj[f][side][i].table_name,
        column_name |-> obj[f][side][i].column_name,
        task_name |-> obj[f].taskName,
        redirect_url |-> constructColumnUrl(obj[f][side][i], baseUrl)]]])

\* variant: the mirror lists only what the options display
generateDisplayedJSON(impacts, colImpacts, changedFiles, yml, keysString, baseUrl) ==
  LET keys == parseConfigurableKeys(keysString)
      assetDirect == IF keys.showDirectAssetList
                       THEN assetRows(impacts, "direct", baseUrl) ELSE <<>>
      assetIndirect == IF keys.showIndirectAssetList
                         THEN assetRows(impacts, "indirect", baseUrl) ELSE <<>>
      columnDirect == IF keys.showDirectColumnList
                        THEN columnRows(colImpacts, "direct", baseUrl) ELSE <<>>
      columnIndirect == IF keys.showIndirectColumnList
                          THEN columnRows(colImpacts, "indirect", baseUrl)
                          ELSE <<>>
  IN [metadata |-> [configurable_keys_used |-> <<>>,
                    analysis_type |-> "coalesce_yml_impact_analysis"],
      changed_files |-> changedFiles,
      asset_impacts |-> [direct |-> assetDirect, indirect |-> assetIndirect],
      column_impacts |-> [direct |-> columnDirect, indirect |-> columnIndirect],
      yml_column_changes |-> [added |-> yml.added, removed |-> yml.removed],
      summary |->
        [total_direct_assets |-> Len(assetDirect),
         total_indirect_assets |-> Len(assetIndirect),
         total_direct_columns |-> Len(columnDirect),
         total_indirect_columns |-> Len(columnIndirect),
         total_yml_added |-> Len(yml.added),
         total_yml_removed |-> Len(yml.removed),
         total_changed_files |-> Len(changedFiles)]]

generateComprehensiveJSON(impacts, colImpacts, changedFiles, yml, keysString, baseUrl) ==
  LET assetDirect == assetRows(impacts, "direct", baseUrl)
      assetIndirect == assetRows(impacts, "indirect", baseUrl)
      columnDirect == columnRows(colImpacts, "direct", baseUrl)
      columnIndirect == columnRows(colImpacts, "indirect", baseUrl)
      parts == split(keysString, ",")
  IN [metadata |->
        [configurable_keys_used |->
           IF keysString = NoString THEN <<>>
           ELSE [i \in DOMAIN parts |-> trim(parts[i])],
         analysis_type |-> "coalesce_yml_impact_analysis"],
      changed_files |-> changedFiles,
      asset_impacts |-> [direct |-> assetDirect, indirect |-> assetIndirect],
      column_impacts |-> [direct |-> columnDirect, indirect |-> columnIndirect],
      yml_column_changes |-> [added |-> yml.added, removed |-> yml.removed],
      summary |->
        [total_direct_assets |-> Len(assetDirect),
         total_indirect_assets |-> Len(assetIndirect),
         total_direct_columns |-> Len(columnDirect),
         total_indirect_columns |-> Len(columnIndirect),
         total_yml_added |-> Len(yml.added),
         total_yml_removed |-> Len(yml.removed),
         total_changed_files |-> Len(changedFiles)]]

\* lines 1033-1041: the comment body
finalSummaryOf(summaryLines, json) ==
  summaryLines \o
  <<H3("Complete Impact Analysis Data"),
    Line("json", "View Complete JSON Data", 0, <<json>>)>>

\* lines 1027-1031
IsOurComment(comment) ==
  /\ comment.userType = "Bot"
  /\ comment.login = "github-actions[bot]"
  /\ \E i \in DOMAIN comment.body :
       comment.body[i].kind = Marker.kind /\ comment.body[i].text = Marker.text

\* lines 1020-1024: issues.listComments is called once and without per_page,
\* so that it answers with the first page of the thread, oldest comment first
PerPage == 30
listComments(comments) ==
  SubSeq(comments, 1, IF Len(comments) > PerPage THEN PerPage ELSE Len(comments))

\* a comment of the thread, as issues.listComments shows it
Comment(id, userType, login, body) ==
  [id |-> id, userType |-> userType, login |-> login, body |-> body]

nextId(comments) ==
  LET loop[i \in 0..Len(comments)] ==
        IF i = 0 THEN 0
        ELSE IF comments[i].id > loop[i - 1] THEN comments[i].id ELSE loop[i - 1]
  IN loop[Len(comments)] + 1

\* variant: the creation is refused when the thread holds the report already
createCommentIfAbsent(comments, author, body) ==
  IF \E i \in DOMAIN comments : IsOurComment(comments[i]) THEN comments
  ELSE Append(comments, Comment(nextId(comments), author.userType, author.login,
                                body))

\* lines 1055-1060: issues.createComment adds a comment of the token's user
createComment(comments, author, body) ==
  Append(comments, Comment(nextId(comments), author.userType, author.login, body))

\* lines 1046-1051: issues.updateComment replaces the body of one comment
updateComment(comments, existing, body) ==
  [comments EXCEPT ![existing].body = body]

existingCommentOf(comments) ==
  LET hits == {i \in DOMAIN comments : IsOurComment(comments[i])}
  IN IF hits = {} THEN 0 ELSE CHOOSE i \in hits : \A j \in hits : i <= j

----------------------------------------------------------------------------
(* The environment of a run: the repository, the task service and the      *)
(* lineage service, each drawn from a small universe.                      *)
sOrders == <<"o","r","d","e","r","s">>
sOrdersCap == <<"O","r","d","e","r","s">>
sItems == <<"i","t","e","m","s">>
sId == <<"i","d">>
sTax == <<"t","a","x">>
fOrders == sOrders \o DotYml
fItems == <<"n","o","d","e","s","/">> \o sItems \o DotYml
fReadme == <<"R","E","A","D","M","E",".","m","d">>

NoBlobs == [base |-> NullBlob, head |-> NullBlob, disk |-> NullBlob]

ValidBase == [kind |-> "valid", origin |-> "https://app.dqlabs.ai", search |-> ""]
AbsentBase == [kind |-> "absent", origin |-> "", search |-> ""]
MalformedBase == [kind |-> "malformed", origin |-> "", search |-> ""]

ActionsBot == [userType |-> "Bot", login |-> "github-actions[bot]"]
Developer == [userType |-> "User", login |-> "dev"]
\* the comment an earlier run left on the pull request
OldReport == Comment(1, "Bot", "github-actions[bot]", <<Marker, H3("Changed Files")>>)

\* a push in which orders.yml gains the column tax
RepoColumnAdded ==
  [changedFiles |-> <<fOrders, fReadme>>,
   blobs |-> [f \in {fOrders, fReadme} |->
                IF f = fOrders
                  THEN [base |-> TextBlob(sOrdersCap, <<sId>>),
                        head |-> TextBlob(sOrdersCap, <<sId, sTax>>),
                        disk |-> TextBlob(sOrdersCap, <<sId, sTax>>)]
                  ELSE NoBlobs],
   pullRequest |-> FALSE, keysString |-> NoString, createlinkUrl |-> ValidBase,
   author |-> ActionsBot, comments |-> <<>>]

\* a pull request that adds orders.yml and touches nodes/items.yml (no root
\* name)
RepoTwoFiles ==
  [changedFiles |-> <<fItems, fOrders>>,
   blobs |-> [f \in {fOrders, fItems} |->
                IF f = fOrders
                  THEN [base |-> NullBlob,
                        head |-> TextBlob(sOrders, <<>>),
                        disk |-> TextBlob(sOrders, <<>>)]
                  ELSE [base |-> TextBlob(NoString, <<sId>>),
                        head |-> TextBlob(NoString, <<sId>>),
                        disk |-> TextBlob(NoString, <<sId>>)]],
   pullRequest |-> TRUE,
   keysString |-> kDirectAssetCount \o <<",">> \o kDirectAssetList,
   createlinkUrl |-> ValidBase, author |-> ActionsBot, comments |-> <<>>]

\* a pull request that changes no model file
RepoNoModels ==
  [changedFiles |-> <<fReadme>>,
   blobs |-> [f \in {fReadme} |-> NoBlobs],
   pullRequest |-> TRUE, keysString |-> <<"f","o","o">>,
   createlinkUrl |-> AbsentBase, author |-> ActionsBot,
   comments |-> <<OldReport>>]

Repos == {RepoColumnAdded, RepoTwoFiles, RepoNoModels}

Task(name, connType, assetId) ==
  [name |-> name, connection_type |-> connType, asset_id |-> assetId,
   task_id |-> assetId]

tOrders == Task(sOrders, CoalescePipeline, "a1")
tOrdersCap == Task(sOrdersCap, <<"C">> \o Tail(CoalescePipeline), "a2")
tItems == Task(sItems, CoalescePipeline, "a3")
tDbt == Task(sOrders, <<"d","b","t">>, "a4")

\* the task lists the task service may answer with
TaskLists ==
  {<<>>, <<tOrders>>, <<tOrdersCap, tOrders>>, <<tDbt, tItems>>,
   <<tOrders, tDbt, tItems>>}

Asset(name, conn, rid) ==
  [name |-> name, connection_id |-> conn, asset_name |-> <<"x">>,
   redirect_id |-> rid, asset_group |-> "pipeline", is_transform |-> "false"]

AssetUniverse ==
  {Asset(<<"A">>, <<"1","-","2">>, "r1"),
   Asset(<<"A">>, <<"1","-","2">>, "r2"),      \* same key, other payload
   Asset(<<"A">>, <<"3">>, "r3"),              \* same name, other key
   Asset(<<"A","-","1">>, <<"2">>, "r4"),      \* other key, same key text
   Asset(sOrders, <<"3">>, "r5")}              \* named like a task

Table(name, conn, rid) ==
  [name |-> name, connection_id |-> conn, redirect_id |-> rid,
   asset_group |-> "data"]

TableUniverse == {Table(<<"T">>, <<"1">>, "r6"), Table(sOrders, <<"1">>, "r7")}

FieldUniverse ==
  {[name |-> sTax, id |-> "c1"], [name |-> sTax, id |-> "c2"],
   [name |-> sId, id |-> "c3"]}

AssetResponses(n) ==
  {[ok |-> FALSE, direct |-> <<>>, indirect |-> <<>>]} \cup
  UNION {{[ok |-> TRUE, direct |-> d, indirect |-> i] :
            i \in SeqsUpTo(AssetUniverse, n - Len(d))} :
         d \in SeqsUpTo(AssetUniverse, n)}

TablesWithFields(n) ==
  {[name |-> t.name, connection_id |-> t.connection_id,
    redirect_id |-> t.redirect_id, asset_group |-> t.asset_group,
    fields |-> fs] :
     t \in TableUniverse, fs \in SeqsUpTo(FieldUniverse, n) \ {<<>>}}

fieldCount(tables) ==
  LET loop[i \in 0..Len(tables)] ==
        IF i = 0 THEN 0 ELSE loop[i - 1] + Len(tables[i].fields)
  IN loop[Len(tables)]

ColumnResponses(n) ==
  {[ok |-> FALSE, tables |-> <<>>]} \cup
  {[ok |-> TRUE, tables |-> ts] :
     ts \in {<<>>} \cup {<<t>> : t \in TablesWithFields(n)}}

TaskResponses ==
  {[ok |-> FALSE, data |-> <<>>]} \cup
  {[ok |-> TRUE, data |-> l] : l \in TaskLists}

----------------------------------------------------------------------------
(* run() (lines 317-1079), one action per await it resumes from.           *)
Call(kind, task) == [kind |-> kind, task |-> task]
Outcome(kind, task, ok) == [kind |-> kind, task |-> task, ok |-> ok]
NoOutcome == Outcome("none", 0, TRUE)

\* the isDirect argument run passes with each lineage call (lines 467-472,
\* 531-537, 549-555) and the depth the payload then carries (lines 103, 135)
isDirectOf(kind) == kind = "columnDirect"
depthOf(kind) == IF isDirectOf(kind) THEN 0 ELSE 10
NoJson == [metadata |-> <<>>]
NotEmitted == [written |-> FALSE, jobSummary |-> <<>>, impact_markdown |-> <<>>]

\* the state of run() before its first statement
Fresh ==
  /\ changedColumns = [added |-> <<>>, removed |-> <<>>]
  /\ tasks = <<>>
  /\ matchedTasks = <<>>
  /\ idx = 0
  /\ fileImpacts = <<>>
  /\ columnImpacts = <<>>
  /\ accumulated = [reconciled |-> FALSE, file |-> <<>>, column |-> <<>>]
  /\ calls = <<>>
  /\ failed = FALSE
  /\ budget = MaxRecords
  /\ outcome = NoOutcome
  /\ received = <<>>
  /\ summary = <<>>
  /\ jsonData = NoJson
  /\ thread = inputs.comments
  /\ emitted = NotEmitted

Init ==
  /\ pc = "start"
  /\ inputs \in Repos
  /\ Fresh
  /\ arg = <<>>
  /\ res = <<>>

\* the outermost catch of run (lines 1075-1078)
Abort ==
  /\ failed' = TRUE
  /\ pc' = "done"

\* lines 323-401: changed files, changed columns, then the task list call
Start ==
  /\ pc = "start"
  /\ changedColumns' = extractChangedColumns(inputs.changedFiles, inputs.blobs)
  /\ calls' = Append(calls, Call("tasks", 0))
  /\ pc' = "getTasks"
  /\ UNCHANGED <<inputs, tasks, matchedTasks, idx, fileImpacts, columnImpacts,
                 accumulated, failed, budget, outcome, summary, jsonData,
                 thread, emitted, received, arg,
                 res>>

\* variant: the for-loop of line 466 steps over every other task
loopNextSkip(i, matched) ==
  IF i + 1 < Len(matched)
    THEN [pc |-> "asset", idx |-> i + 2, call |-> <<Call("asset", i + 2)>>]
    ELSE [pc |-> "reconcile", idx |-> i, call |-> <<>>]

\* where the for-loop of line 466 goes after task i
loopNext(i, matched) ==
  IF i < Len(matched)
    THEN [pc |-> "asset", idx |-> i + 1, call |-> <<Call("asset", i + 1)>>]
    ELSE [pc |-> "reconcile", idx |-> i, call |-> <<>>]

\* lines 401-468: the task list arrives, tasks are matched, the loop starts
TasksResponse ==
  /\ pc = "getTasks"
  /\ \E response \in TaskResponses :
       LET r == getTasks(response)
           models == changedModelsOf(inputs.changedFiles, inputs.blobs)
           matched == matchTasks(r.value, models.changedModels,
                                 models.modelNameToFileMap)
           next == loopNext(0, matched)
       IN /\ outcome' = Outcome("tasks", 0, response.ok)
          /\ IF r.thrown
            THEN /\ Abort
                 /\ UNCHANGED <<tasks, matchedTasks, idx, fileImpacts,
                                columnImpacts, calls>>
            ELSE /\ tasks' = r.value
                 /\ matchedTasks' = matched
                 /\ fileImpacts' = initFileImpacts(matched)
                 /\ columnImpacts' = initColumnImpacts(matched)
                 /\ idx' = next.idx
                 /\ pc' = next.pc
                 /\ calls' = calls \o next.call
                 /\ UNCHANGED failed
  /\ UNCHANGED <<inputs, changedColumns, accumulated, budget, summary,
                 jsonData, thread, emitted, received, arg,
                 res>>

\* lines 468-534: the asset-level response of task idx
AssetResponse ==
  /\ pc = "asset"
  /\ \E response \in AssetResponses(budget) :
       LET task == matchedTasks[idx]
           r == getImpactAnalysisData(response)
           cols == taskChangedColumns(changedColumns, task)
           next == loopNext(idx, matchedTasks)
       IN /\ budget' = budget - (Len(response.direct) + Len(response.indirect))
          /\ outcome' = Outcome("asset", idx, response.ok)
          /\ received' = Append(received, [ok |-> response.ok,
                                            direct |-> r.value.direct,
                                            indirect |-> r.value.indirect])
          /\ IF r.thrown
               THEN /\ Abort
                    /\ UNCHANGED <<idx, fileImpacts, columnImpacts, calls>>
               ELSE /\ fileImpacts' = pushAssetImpacts(fileImpacts, task, r.value)
                    /\ UNCHANGED failed
                    /\ IF cols # <<>>
                         THEN /\ columnImpacts' =
                                   objSet(columnImpacts, task.filePath,
                                          [objGet(columnImpacts, task.filePath)
                                             EXCEPT !.changedColumns = cols])
                              /\ pc' = "columnDirect"
                              /\ calls' = Append(calls, Call("columnDirect", idx))
                              /\ UNCHANGED idx
                         ELSE /\ pc' = next.pc
                              /\ idx' = next.idx
                              /\ calls' = calls \o next.call
                              /\ UNCHANGED columnImpacts
  /\ UNCHANGED <<inputs, changedColumns, tasks, matchedTasks, accumulated,
                 summary, jsonData, thread, emitted, arg, res>>

\* lines 534-552: the direct column-level response of task idx
ColumnDirectResponse ==
  /\ pc = "columnDirect"
  /\ \E response \in ColumnResponses(budget) :
       LET task == matchedTasks[idx]
           e == objGet(columnImpacts, task.filePath)
           r == getColumnLevelImpactAnalysis(response, e.changedColumns)
       IN /\ budget' = budget - fieldCount(response.tables)
          /\ outcome' = Outcome("columnDirect", idx, response.ok)
          /\ IF r.thrown
               THEN /\ Abort
                    /\ UNCHANGED <<columnImpacts, calls>>
               ELSE /\ columnImpacts' =
                         objSet(columnImpacts, task.filePath,
                                [e EXCEPT !.direct =
                                   @ \o filteredColumnImpact(r.value, task)])
                    /\ pc' = "columnIndirect"
                    /\ calls' = Append(calls, Call("columnIndirect", idx))
                    /\ UNCHANGED failed
  /\ UNCHANGED <<inputs, changedColumns, tasks, matchedTasks, idx, fileImpacts,
                 accumulated, summary, jsonData, thread, emitted, received, arg,
                 res>>

\* lines 552-568: the indirect column-level response of task idx
ColumnIndirectResponse ==
  /\ pc = "columnIndirect"
  /\ \E response \in ColumnResponses(budget) :
       LET task == matchedTasks[idx]
           e == objGet(columnImpacts, task.filePath)
           r == getColumnLevelImpactAnalysis(response, e.changedColumns)
           next == loopNext(idx, matchedTasks)
       IN /\ budget' = budget - fieldCount(response.tables)
          /\ outcome' = Outcome("columnIndirect", idx, response.ok)
          /\ IF r.thrown
               THEN /\ Abort
                    /\ UNCHANGED <<idx, columnImpacts, calls>>
               ELSE /\ columnImpacts' =
                         objSet(columnImpacts, task.filePath,
                                [e EXCEPT !.indirect =
                                   @ \o filteredColumnImpact(r.value, task)])
                    /\ pc' = next.pc
                    /\ idx' = next.idx
                    /\ calls' = calls \o next.call
                    /\ UNCHANGED failed
  /\ UNCHANGED <<inputs, changedColumns, tasks, matchedTasks, fileImpacts,
                 accumulated, summary, jsonData, thread, emitted, received, arg,
                 res>>

\* lines 570-1024, run without an await in between: cross-set removal and
\* deduplication, assets then columns; the report and the mirror are built;
\* on a pull request the comments are listed
Reconcile ==
  /\ pc = "reconcile"
  /\ accumulated' = [reconciled |-> TRUE, file |-> fileImpacts,
                     column |-> columnImpacts]
  /\ fileImpacts' = reconcileFiles(fileImpacts)
  /\ columnImpacts' = reconcileColumns(columnImpacts)
  /\ outcome' = NoOutcome
  /\ LET keys == parseConfigurableKeys(inputs.keysString)
         yml == processColumnChanges(inputs.changedFiles, inputs.blobs)
     IN /\ summary' = summaryOf(fileImpacts', columnImpacts', inputs.changedFiles,
                                yml, keys, inputs.createlinkUrl)
        /\ jsonData' = generateComprehensiveJSON(fileImpacts', columnImpacts',
                          inputs.changedFiles, yml, inputs.keysString,
                          inputs.createlinkUrl)
  /\ IF inputs.pullRequest
       THEN /\ pc' = "listComments"
            /\ calls' = Append(calls, Call("listComments", 0))
       ELSE /\ pc' = "emit"
            /\ UNCHANGED calls
  /\ UNCHANGED <<inputs, changedColumns, tasks, matchedTasks, idx, failed,
                 budget, thread, emitted, received, arg, res>>

\* variant: a rejected comment call reaches the outermost catch (line 1075)
commentErrorUncaught == [pc |-> "done", setFailed |-> TRUE]

\* lines 1064-1066: the catch around the comment calls logs the error and
\* run goes on to its output
commentErrorCaught == [pc |-> "emit", setFailed |-> FALSE]

\* lines 1020-1062: the comment list arrives; the comment is created or
\* updated; a rejection is caught at line 1064
ListResponse ==
  /\ pc = "listComments"
  /\ \E ok \in BOOLEAN :
       LET existing == existingCommentOf(listComments(thread))
       IN /\ outcome' = Outcome("listComments", existing, ok)
          /\ IF ~ok
               THEN /\ pc' = commentErrorCaught.pc
                    /\ failed' = (failed \/ commentErrorCaught.setFailed)
                    /\ UNCHANGED calls
               ELSE /\ UNCHANGED failed
                    /\ IF existing # 0
                         THEN /\ pc' = "updateComment"
                              /\ calls' = Append(calls, Call("updateComment", 0))
                         ELSE /\ pc' = "createComment"
                              /\ calls' = Append(calls, Call("createComment", 0))
  /\ UNCHANGED <<inputs, changedColumns, tasks, matchedTasks, idx, fileImpacts,
                 columnImpacts, accumulated, budget, summary, jsonData,
                 thread, emitted, received, arg, res>>

\* lines 1046-1051
UpdateResponse ==
  /\ pc = "updateComment"
  /\ \E ok \in BOOLEAN :
       /\ outcome' = Outcome("updateComment", outcome.task, ok)
       /\ IF ok
            THEN /\ thread' = updateComment(thread, outcome.task,
                                          finalSummaryOf(summary, jsonData))
                 /\ pc' = "emit"
                 /\ UNCHANGED failed
            ELSE /\ thread' = thread
                 /\ pc' = commentErrorCaught.pc
                 /\ failed' = (failed \/ commentErrorCaught.setFailed)
  /\ UNCHANGED <<inputs, changedColumns, tasks, matchedTasks, idx, fileImpacts,
                 columnImpacts, accumulated, calls, budget, summary,
                 jsonData, emitted, received, arg, res>>

\* lines 1055-1060
CreateResponse ==
  /\ pc = "createComment"
  /\ \E ok \in BOOLEAN :
       /\ outcome' = Outcome("createComment", 0, ok)
       /\ IF ok
            THEN /\ thread' = createComment(thread, inputs.author,
                                          finalSummaryOf(summary, jsonData))
                 /\ pc' = "emit"
                 /\ UNCHANGED failed
            ELSE /\ thread' = thread
                 /\ pc' = commentErrorCaught.pc
                 /\ failed' = (failed \/ commentErrorCaught.setFailed)
  /\ UNCHANGED <<inputs, changedColumns, tasks, matchedTasks, idx, fileImpacts,
                 columnImpacts, accumulated, calls, budget, summary,
                 jsonData, emitted, received, arg, res>>

\* lines 1069-1074: the job summary and the impact_markdown output
Emit ==
  /\ pc = "emit"
  /\ emitted' = [written |-> TRUE, jobSummary |-> summary,
                 impact_markdown |-> summary]
  /\ pc' = "done"
  /\ UNCHANGED <<inputs, changedColumns, tasks, matchedTasks, idx, fileImpacts,
                 columnImpacts, accumulated, calls, failed, budget, outcome,
                 summary, jsonData, thread, received, arg,
                 res>>

Next ==
  \/ Start
  \/ TasksResponse
  \/ AssetResponse
  \/ ColumnDirectResponse
  \/ ColumnIndirectResponse
  \/ Reconcile
  \/ ListResponse
  \/ UpdateResponse
  \/ CreateResponse
  \/ Emit

Spec == Init /\ [][Next]_vars

----------------------------------------------------------------------------
(* Properties of a run.                                                    *)
Reconciled == accumulated.reconciled

\* identity keys as tuples, so that two keys are equal only field by field
assetKey(r) == <<r.name, r.connection_id, r.asset_name>>
columnKey(c) == <<c.table_name, c.column_name, c.connection_id>>
assetKeys(list) == {assetKey(list[i]) : i \in DOMAIN list}
columnKeys(list) == {columnKey(list[i]) : i \in DOMAIN list}
tasksOfFile(filePath) ==
  {t \in DOMAIN matchedTasks : matchedTasks[t].filePath = filePath}

\* C1: after reconciliation, for every file, no asset identity key
\* (name, connection_id, asset_name) is in both the direct and the indirect
\* set, and no column identity key (table_name, column_name, connection_id)
\* is in both the direct and the indirect column set.
C1_DirectPrecedence ==
  Reconciled =>
    /\ \A f \in DOMAIN fileImpacts :
         assetKeys(fileImpacts[f].direct) \cap assetKeys(fileImpacts[f].indirect) = {}
    /\ \A f \in DOMAIN columnImpacts :
         columnKeys(columnImpacts[f].direct)
           \cap columnKeys(columnImpacts[f].indirect) = {}

\* two tasks matched to one file left the same key in both accumulators, and
\* reconciliation kept it in direct only
C1_Witness ==
  /\ Reconciled
  /\ \E f \in DOMAIN fileImpacts :
       /\ Cardinality(tasksOfFile(fileImpacts[f].filePath)) = 2
       /\ assetKeys(accumulated.file[f].direct)
            \cap assetKeys(accumulated.file[f].indirect) # {}
       /\ assetKeys(accumulated.file[f].direct) = assetKeys(fileImpacts[f].direct)
       /\ fileImpacts[f].indirect = <<>>

\* task t received record R in both buckets of its asset-level response and
\* R is not named like the task
InBothBuckets(t, R) ==
  /\ t \in DOMAIN received
  /\ arrIncludes(received[t].direct, R)
  /\ arrIncludes(received[t].indirect, R)
  /\ R.name # matchedTasks[t].name

fileOfTask(t) == objGet(fileImpacts, matchedTasks[t].filePath)

\* another task matched to the same file received R as a direct impact and
\* nothing of R's name as an indirect impact
DirectElsewhere(t, R) ==
  \E u \in tasksOfFile(matchedTasks[t].filePath) \cap DOMAIN received :
    /\ u # t
    /\ arrIncludes(received[u].direct, R)
    /\ \A i \in DOMAIN received[u].indirect : received[u].indirect[i].name # R.name
    /\ R.name # matchedTasks[u].name

keyTexts(list) == {uniqueKey(list[i]) : i \in DOMAIN list}

\* C2 as stated: a record returned in both buckets of one task's response
\* ends, after reconciliation, in the file's direct set and not in its
\* indirect set.
C2_AsStated ==
  Reconciled =>
    \A t \in DOMAIN received : \A R \in AssetUniverse :
      InBothBuckets(t, R) =>
        /\ arrIncludes(fileOfTask(t).direct, R)
        /\ ~arrIncludes(fileOfTask(t).indirect, R)

\* C2: a record returned in both buckets of one task's response is added by
\* that task to the file's indirect list only.  After reconciliation it is in
\* the file's direct set only if another task matched to the same file
\* received it as a direct impact with nothing of its name as an indirect
\* impact; and it is in the indirect set unless a record with the same key
\* text is in the reconciled direct or indirect set.
C2_IndirectWins ==
  Reconciled =>
    \A t \in DOMAIN received : \A R \in AssetUniverse :
      InBothBuckets(t, R) =>
        /\ arrIncludes(accumulated.file[objIndex(fileImpacts,
                          matchedTasks[t].filePath)].indirect, R)
        /\ arrIncludes(fileOfTask(t).direct, R) => DirectElsewhere(t, R)
        /\ \/ arrIncludes(fileOfTask(t).indirect, R)
           \/ uniqueKey(R) \in keyTexts(fileOfTask(t).direct)
                                 \cup keyTexts(fileOfTask(t).indirect)

\* the only task of a file received R in both buckets: R is an indirect
\* impact of the file and not a direct one
C2_Witness ==
  /\ Reconciled
  /\ \E t \in DOMAIN received : \E R \in AssetUniverse :
       /\ InBothBuckets(t, R)
       /\ tasksOfFile(matchedTasks[t].filePath) = {t}
       /\ arrIncludes(fileOfTask(t).indirect, R)
       /\ ~arrIncludes(fileOfTask(t).direct, R)

IsFirstOccurrence(kept, all, Key(_)) ==
  \E j \in DOMAIN all :
    /\ all[j] = kept
    /\ \A k \in 1..(j - 1) : Key(all[k]) # Key(kept)

NoRepeatedKey(list, Key(_)) ==
  \A i, j \in DOMAIN list : Key(list[i]) = Key(list[j]) => i = j

\* C3: after reconciliation no two records of a direct or indirect set, asset
\* or column, share an identity key, and every record kept is the first
\* record of its key in the order the tasks accumulated them.
C3_FirstOccurrenceKept ==
  Reconciled =>
    /\ \A f \in DOMAIN fileImpacts :
         /\ NoRepeatedKey(fileImpacts[f].direct, assetKey)
         /\ NoRepeatedKey(fileImpacts[f].indirect, assetKey)
         /\ \A i \in DOMAIN fileImpacts[f].direct :
              IsFirstOccurrence(fileImpacts[f].direct[i],
                                accumulated.file[f].direct, assetKey)
         /\ \A i \in DOMAIN fileImpacts[f].indirect :
              IsFirstOccurrence(fileImpacts[f].indirect[i],
                                accumulated.file[f].indirect, assetKey)
    /\ \A f \in DOMAIN columnImpacts :
         /\ NoRepeatedKey(columnImpacts[f].direct, columnKey)
         /\ NoRepeatedKey(columnImpacts[f].indirect, columnKey)
         /\ \A i \in DOMAIN columnImpacts[f].direct :
              IsFirstOccurrence(columnImpacts[f].direct[i],
                                accumulated.column[f].direct, columnKey)
         /\ \A i \in DOMAIN columnImpacts[f].indirect :
              IsFirstOccurrence(columnImpacts[f].indirect[i],
                                accumulated.column[f].indirect, columnKey)

\* two tasks of one file each contributed a direct asset record of the same
\* key with another payload; the first one was kept
C3_Witness ==
  /\ Reconciled
  /\ \E f \in DOMAIN fileImpacts :
       LET acc == accumulated.file[f].direct
       IN /\ Cardinality(tasksOfFile(fileImpacts[f].filePath)) = 2
          /\ Len(acc) = 2
          /\ assetKey(acc[1]) = assetKey(acc[2])
          /\ acc[1] # acc[2]
          /\ fileImpacts[f].direct = <<acc[1]>>

NoCallTwice == \A i, j \in DOMAIN calls : calls[i] = calls[j] => i = j

LineageCall == {"getTasks", "asset", "columnDirect", "columnIndirect"}

\* what a step that handles a failed task-list or lineage call does
FailureTolerated ==
  (pc \in LineageCall /\ ~outcome'.ok) =>
    /\ ~failed' /\ pc' # "done"
    /\ pc = "getTasks" => tasks' = <<>> /\ matchedTasks' = <<>>
    /\ pc = "asset" =>
         /\ fileImpacts' = fileImpacts
         /\ \A f \in DOMAIN columnImpacts :
              /\ columnImpacts'[f].direct = columnImpacts[f].direct
              /\ columnImpacts'[f].indirect = columnImpacts[f].indirect
    /\ pc \in {"columnDirect", "columnIndirect"} =>
         /\ columnImpacts' = columnImpacts
         /\ fileImpacts' = fileImpacts
    /\ pc = "columnDirect" => pc' = "columnIndirect" /\ idx' = idx
    /\ (pc' = "asset" /\ pc # "getTasks") => idx' = idx + 1
    /\ pc' = "reconcile" => idx = Len(matchedTasks')

\* every position before the end has a handler, and inside the loop the task
\* it is at has its entries in both accumulators
Ready ==
  \/ pc \in {"start", "getTasks", "reconcile", "listComments", "updateComment",
             "createComment", "emit"}
  \/ /\ pc \in {"asset", "columnDirect", "columnIndirect"}
     /\ idx \in DOMAIN matchedTasks
     /\ objHas(fileImpacts, matchedTasks[idx].filePath)
     /\ objHas(columnImpacts, matchedTasks[idx].filePath)

\* how far the run has come; every step increases it
Rank ==
  LET after == 3 * Len(matchedTasks) + 3
  IN CASE pc = "start" -> 0
       [] pc = "getTasks" -> 1
       [] pc = "asset" -> 3 * idx
       [] pc = "columnDirect" -> 3 * idx + 1
       [] pc = "columnIndirect" -> 3 * idx + 2
       [] pc = "reconcile" -> after
       [] pc = "listComments" -> after + 2
       [] pc \in {"updateComment", "createComment"} -> after + 3
       [] pc = "emit" -> after + 4
       [] OTHER -> after + 5

\* C7: no call is issued twice; a failed task-list, asset-level or
\* column-level call leaves the task list empty, respectively the
\* accumulators as they were, and processing goes on with the next call; the
\* run is never marked failed, every step before the end can be taken and
\* brings the run closer to it, and at its end every matched task has been
\* queried and the report has been emitted.
C7_PartialFailureTolerance ==
  /\ [](NoCallTwice /\ ~failed)
  /\ [](pc # "done" => Ready)
  /\ [](pc = "done" =>
          /\ emitted.written
          /\ \A t \in DOMAIN matchedTasks :
               \E i \in DOMAIN calls : calls[i] = Call("asset", t))
  /\ [][FailureTolerated /\ Rank' > Rank]_vars

\* the asset-level call of the first of two matched tasks failed; the second
\* task answered with records and the report was emitted
C7_Witness ==
  /\ pc = "done" /\ emitted.written /\ ~failed
  /\ Len(matchedTasks) = 2 /\ Len(received) = 2
  /\ ~received[1].ok
  /\ received[2].ok /\ received[2].direct # <<>>

SectionTitles ==
  <<"Changed Files", "Asset level Impacts", "Column level Impacts",
    "YML Column Changes", "Complete Impact Analysis Data">>

sectionsOf(doc) ==
  LET IsSection(line) == line.kind = "h3"
      heads == SelectSeq(doc, IsSection)
  IN [i \in DOMAIN heads |-> heads[i].text]

titleIndex(title) ==
  IF \E i \in DOMAIN SectionTitles : SectionTitles[i] = title
    THEN CHOOSE i \in DOMAIN SectionTitles : SectionTitles[i] = title
    ELSE 0

InFixedOrder(doc) ==
  LET secs == sectionsOf(doc)
  IN /\ \A i \in DOMAIN secs : titleIndex(secs[i]) # 0
     /\ \A i, j \in DOMAIN secs : i < j => titleIndex(secs[i]) < titleIndex(secs[j])

EndsWithDataBlock(doc) == doc # <<>> /\ doc[Len(doc)].kind = "json"

\* the comments this run has created or updated
writtenComments ==
  {i \in DOMAIN thread :
     i \notin DOMAIN inputs.comments \/ thread[i] # inputs.comments[i]}

\* C10 as stated: the job summary, the impact_markdown output and the body of
\* the review comment each have their sections in the fixed order and end
\* with the machine-readable data block.
C10_AsStated ==
  /\ emitted.written =>
       /\ InFixedOrder(emitted.jobSummary)
       /\ EndsWithDataBlock(emitted.jobSummary)
       /\ InFixedOrder(emitted.impact_markdown)
       /\ EndsWithDataBlock(emitted.impact_markdown)
  /\ \A i \in writtenComments :
       /\ InFixedOrder(thread[i].body)
       /\ EndsWithDataBlock(thread[i].body)

\* what the code does keep: the sections are in the fixed order everywhere,
\* and the data block ends the comment body, and only the comment body
C10_OrderAndCommentBlock ==
  /\ emitted.written =>
       /\ InFixedOrder(emitted.jobSummary)
       /\ ~EndsWithDataBlock(emitted.jobSummary)
       /\ emitted.impact_markdown = emitted.jobSummary
  /\ \A i \in writtenComments :
       /\ InFixedOrder(thread[i].body)
       /\ EndsWithDataBlock(thread[i].body)

----------------------------------------------------------------------------
(* Functions of the program checked on their own: the input is drawn into  *)
(* arg, one step applies the function and leaves its result in res.  The   *)
(* variables of run() stay as they are before its first statement.         *)
runVars == <<inputs, changedColumns, tasks, matchedTasks, idx, fileImpacts,
             columnImpacts, accumulated, calls, failed, budget, outcome,
             received, summary, jsonData, thread, emitted>>

Standby == inputs = RepoNoModels /\ Fresh /\ res = <<>>

----------------------------------------------------------------------------
(* Column relevance (lines 204-222).                                       *)
NameAlphabet == {"a", "b", "A", "\""}

\* the two examples of quoted names, and a field without a name
QuotedExamples ==
  {[field |-> <<"\"","O","r","d","e","r","_","I","D","\"">>,
    col |-> <<"o","r","d","e","r","_","i","d">>],
   [field |-> <<Backtick,"a","m","o","u","n","t",Backtick>>,
    col |-> <<"A","m","o","u","n","t">>],
   [field |-> <<"'","a","b","'">>, col |-> <<"a">>],
   [field |-> NoString, col |-> <<"a">>]}

\* names have at least one character that is not a quote
IsName(s) == stripQuotes(s) # NoString

RelevanceInputs ==
  QuotedExamples \cup
  {[field |-> f, col |-> c] :
     f \in {n \in SeqsUpTo(NameAlphabet, MaxLen) : IsName(n)},
     c \in {n \in SeqsUpTo(NameAlphabet, MaxLen - 1) : IsName(n)}}

InitRelevance == pc = "isImpacted" /\ Standby /\ arg \in RelevanceInputs

ApplyIsImpacted ==
  /\ pc = "isImpacted"
  /\ res' = isImpacted(arg.field, <<arg.col>>)
  /\ pc' = "isImpactedDone"
  /\ UNCHANGED <<runVars, arg>>

NextRelevance == ApplyIsImpacted

SpecRelevance == InitRelevance /\ [][NextRelevance]_vars

\* the rule of the specification: compare after lower-casing and removing
\* quote characters
relevantAsSpecified(f, c) ==
  LET field == stripQuotes(toLowerCase(f))
      col == stripQuotes(toLowerCase(c))
  IN field = col \/ includes(field, col) \/ includes(col, field)

\* C4 as stated: a field is impacted by a changed column if and only if,
\* lower-cased and without quote characters, the names are equal or one
\* contains the other.
C4_AsStated ==
  pc = "isImpactedDone" => (res <=> relevantAsSpecified(arg.field, arg.col))

\* what the code decides is never more than the rule allows, and the two
\* quoted examples match
C4_NeverMoreThanRule ==
  pc = "isImpactedDone" =>
    /\ res => relevantAsSpecified(arg.field, arg.col)
    /\ arg \in QuotedExamples => res

----------------------------------------------------------------------------
(* Column delta (lines 258-315).                                           *)
sTotal == <<"t","o","t","a","l">>
ColumnNames == {sId, sTotal, sTax}

Revisions ==
  {NullBlob, EmptyBlob} \cup
  {TextBlob(sOrders, cols) : cols \in SeqsUpTo(ColumnNames, MaxCols)}

InitDelta ==
  /\ pc = "extractChangedColumns"
  /\ Standby
  /\ arg \in {[base |-> b, head |-> h, disk |-> h] : b, h \in Revisions}

ApplyExtractChangedColumns ==
  /\ pc = "extractChangedColumns"
  /\ res' = extractChangedColumns(<<fReadme, fOrders>>,
               [f \in {fReadme, fOrders} |-> IF f = fOrders THEN arg ELSE NoBlobs])
  /\ pc' = "extractChangedColumnsDone"
  /\ UNCHANGED <<runVars, arg>>

NextDelta == ApplyExtractChangedColumns

SpecDelta == InitDelta /\ [][NextDelta]_vars

columnsOf(blob) == IF blob.kind = "text" THEN blob.columns ELSE <<>>
namesOf(cols) == {cols[i].column : i \in DOMAIN cols}
without(A, B) ==
  LET NotInB(c) == ~arrIncludes(B, c)
  IN SelectSeq(A, NotInB)

\* C6 as stated: the added columns are the after-columns not among the
\* before-columns, the removed columns the before-columns not among the
\* after-columns; an absent before content makes every after-column added;
\* only an absent after content makes the file contribute nothing.
C6_AsStated ==
  pc = "extractChangedColumnsDone" =>
    LET B == columnsOf(arg.base)
        A == columnsOf(arg.head)
    IN IF arg.head.kind = "null"
         THEN res = [added |-> <<>>, removed |-> <<>>]
         ELSE /\ [i \in DOMAIN res.added |-> res.added[i].column] = without(A, B)
              /\ [i \in DOMAIN res.removed |-> res.removed[i].column] = without(B, A)
              /\ namesOf(res.added) \cap namesOf(res.removed) = {}
              /\ \A i \in DOMAIN res.added : res.added[i].file = fOrders
              /\ \A i \in DOMAIN res.removed : res.removed[i].file = fOrders

\* the same policy holds whenever the after content is not the empty file
C6_ExceptEmptyHead ==
  (pc = "extractChangedColumnsDone" /\ arg.head.kind # "empty") => C6_AsStated

----------------------------------------------------------------------------
(* Task matching (lines 404-435).                                          *)
sOrdersStaging == sOrders \o <<"_","s","t","a","g","i","n","g">>

TaskUniverse ==
  {tOrders, tOrdersCap, tItems, tDbt,
   Task(sOrdersStaging, CoalescePipeline, "a5"),
   Task(sItems, <<"m","y","_">> \o CoalescePipeline \o <<"_","v","2">>, "a6")}

InitTasks ==
  /\ pc = "matchTasks"
  /\ Standby
  /\ arg \in {[taskList |-> l, repo |-> r] :
                l \in SeqsUpTo(TaskUniverse, MaxTasks), r \in Repos}

ApplyMatchTasks ==
  /\ pc = "matchTasks"
  /\ LET models == changedModelsOf(arg.repo.changedFiles, arg.repo.blobs)
     IN res' = matchTasks(arg.taskList, models.changedModels,
                          models.modelNameToFileMap)
  /\ pc' = "matchTasksDone"
  /\ UNCHANGED <<runVars, arg>>

NextTasks == ApplyMatchTasks

SpecTasks == InitTasks /\ [][NextTasks]_vars

\* the changed .yml files of a repository whose model name, lower-cased, is
\* the given lower-cased name
filesOfModel(repo, name) ==
  {repo.changedFiles[i] : i \in
     {j \in DOMAIN repo.changedFiles :
        /\ IsYml(repo.changedFiles[j])
        /\ modelOfFile(repo.changedFiles[j], repo.blobs) # NoString
        /\ toLowerCase(modelOfFile(repo.changedFiles[j], repo.blobs))
             = toLowerCase(name)}}

\* C5: the matched tasks are exactly the listed tasks whose lower-cased
\* connection_type contains coalesce_pipeline and whose lower-cased name is
\* the lower-cased name of a changed model, in the order of the list; each
\* carries the file of a changed model of that case-folded name.
C5_TaskMatching ==
  pc = "matchTasksDone" =>
    LET Wanted(task) ==
          /\ includes(toLowerCase(task.connection_type), CoalescePipeline)
          /\ filesOfModel(arg.repo, task.name) # {}
        wanted == SelectSeq(arg.taskList, Wanted)
    IN /\ Len(res) = Len(wanted)
       /\ \A i \in DOMAIN res :
            /\ res[i].name = wanted[i].name
            /\ res[i].asset_id = wanted[i].asset_id
            /\ res[i].connection_type = wanted[i].connection_type
            /\ res[i].filePath # NoString
            /\ res[i].filePath \in filesOfModel(arg.repo, res[i].name)

\* model Orders is matched by task orders and by task Orders, in list order,
\* and not by task orders_staging
C5_Witness ==
  /\ pc = "matchTasksDone"
  /\ arg.repo = RepoColumnAdded
  /\ Len(arg.taskList) = 3
  /\ arg.taskList[1] = tOrders
  /\ arg.taskList[2].name = sOrdersStaging
  /\ arg.taskList[3] = tOrdersCap
  /\ Len(res) = 2
  /\ res[1].name = sOrders /\ res[2].name = sOrdersCap
  /\ res[1].filePath = fOrders

----------------------------------------------------------------------------
(* Output options (lines 27-59).                                           *)
Entry(text, means) == [text |-> text, means |-> means]

\* what the entries of an option string may be: the nine keys (one of them
\* with blanks around it and in capitals), an unknown word, nothing
OptionEntries ==
  {Entry(kDirectColumnCount, "showDirectColumnCount"),
   Entry(kIndirectColumnCount, "showIndirectColumnCount"),
   Entry(<<" ","D","i","r","e","c","t","_","A","S","S","E","T","_","c","o","u","n","t"," ">>,
         "showDirectAssetCount"),
   Entry(kIndirectAssetCount, "showIndirectAssetCount"),
   Entry(kDirectColumnList, "showDirectColumnList"),
   Entry(kIndirectColumnList, "showIndirectColumnList"),
   Entry(kDirectAssetList, "showDirectAssetList"),
   Entry(kIndirectAssetList, "showIndirectAssetList"),
   Entry(kYmlColumnChanges, "showYmlColumnChanges"),
   Entry(<<"f","o","o">>, "none"),
   Entry(NoString, "none")}

\* Array.prototype.join(',')
join(entries) ==
  LET loop[i \in 0..Len(entries)] ==
        IF i = 0 THEN NoString
        ELSE IF i = 1 THEN entries[1].text
        ELSE loop[i - 1] \o <<",">> \o entries[i].text
  IN loop[Len(entries)]

Flags == DOMAIN AllEnabled
AllDisabled == [f \in Flags |-> FALSE]

InitKeys ==
  /\ pc = "parseConfigurableKeys"
  /\ Standby
  /\ arg \in SeqsUpTo(OptionEntries, MaxKeys)

ApplyParseConfigurableKeys ==
  /\ pc = "parseConfigurableKeys"
  /\ res' = parseConfigurableKeys(join(arg))
  /\ pc' = "parseConfigurableKeysDone"
  /\ UNCHANGED <<runVars, arg>>

NextKeys == ApplyParseConfigurableKeys

SpecKeys == InitKeys /\ [][NextKeys]_vars

NoRecognizedKey == \A i \in DOMAIN arg : arg[i].means = "none"

\* C9 as stated: an option string that is empty, missing or holds no
\* recognized key enables all nine flags.
C9_AsStated ==
  (pc = "parseConfigurableKeysDone" /\ NoRecognizedKey) => res = AllEnabled

\* C9: an empty or missing option string enables all nine flags; of any
\* other string a flag is enabled exactly when its key is one of the
\* comma-separated entries, blanks around it and letter case aside; so a
\* string that is not empty and holds no recognized key disables all nine.
C9_DefaultOnlyWhenEmpty ==
  pc = "parseConfigurableKeysDone" =>
    IF join(arg) = NoString THEN res = AllEnabled
    ELSE /\ \A f \in Flags : res[f] <=> \E i \in DOMAIN arg : arg[i].means = f
         /\ NoRecognizedKey => res = AllDisabled

\* the option string foo disables every flag
C9_Witness ==
  /\ pc = "parseConfigurableKeysDone"
  /\ arg = <<Entry(<<"f","o","o">>, "none")>>
  /\ res = AllDisabled

----------------------------------------------------------------------------
(* The structured mirror (lines 915-1010), built twice from the same       *)
(* reconciled impacts under two option strings.                            *)
FileEntry(filePath, taskName, direct, indirect) ==
  [filePath |-> filePath, direct |-> direct, indirect |-> indirect,
   taskName |-> taskName]

\* reconciled asset impacts of a push that changed orders.yml and items.yml
MirrorImpacts ==
  {reconcileFiles(<<FileEntry(fItems, sItems, <<>>, i2),
                    FileEntry(fOrders, sOrders, d, i)>>) :
     d \in SeqsUpTo(AssetUniverse, MaxRows),
     i \in SeqsUpTo(AssetUniverse, MaxRows),
     i2 \in SeqsUpTo(AssetUniverse, MaxRows)}

ColumnEntry(filePath, taskName, direct, indirect) ==
  [filePath |-> filePath, direct |-> direct, indirect |-> indirect,
   taskName |-> taskName, changedColumns |-> <<sTax>>]

cTax == columnRecord(Table(<<"T">>, <<"1">>, "r6"), [name |-> sTax, id |-> "c1"])
cTax2 == columnRecord(Table(sItems, <<"1">>, "r8"), [name |-> sTax, id |-> "c2"])

MirrorColumnImpacts ==
  {reconcileColumns(<<ColumnEntry(fItems, sItems, <<>>, <<>>),
                      ColumnEntry(fOrders, sOrders, d, i)>>) :
     d \in {<<>>, <<cTax>>}, i \in {<<>>, <<cTax2>>, <<cTax>>}}

OptionStrings ==
  {NoString, <<"f","o","o">>, kDirectAssetList,
   kIndirectColumnList \o <<",">> \o kYmlColumnChanges}

InitMirror ==
  /\ pc = "generateComprehensiveJSON"
  /\ Standby
  /\ arg \in {[impacts |-> m, colImpacts |-> c, keysA |-> a, keysB |-> b] :
                m \in MirrorImpacts, c \in MirrorColumnImpacts,
                a \in OptionStrings, b \in OptionStrings}

mirrorOf(keysString) ==
  generateComprehensiveJSON(arg.impacts, arg.colImpacts,
     RepoTwoFiles.changedFiles, [added |-> <<sTax>>, removed |-> <<sId>>],
     keysString, RepoTwoFiles.createlinkUrl)

ApplyGenerateComprehensiveJSON ==
  /\ pc = "generateComprehensiveJSON"
  /\ res' = [a |-> mirrorOf(arg.keysA), b |-> mirrorOf(arg.keysB)]
  /\ pc' = "generateComprehensiveJSONDone"
  /\ UNCHANGED <<runVars, arg>>

NextMirror == ApplyGenerateComprehensiveJSON

SpecMirror == InitMirror /\ [][NextMirror]_vars

\* the rows of one side list every record of every file, file by file
AssetRowsComplete(rows, side) ==
  LET all == allOf(arg.impacts, side)
  IN /\ Len(rows) = Len(all)
     /\ \A i \in DOMAIN all :
          /\ rows[i].model_name = all[i].name
          /\ \E f \in DOMAIN arg.impacts :
               /\ rows[i].file_path = arg.impacts[f].filePath
               /\ arrIncludes(arg.impacts[f][side], all[i])

ColumnRowsComplete(rows, side) ==
  LET all == allOf(arg.colImpacts, side)
  IN /\ Len(rows) = Len(all)
     /\ \A i \in DOMAIN all :
          /\ rows[i].table_name = all[i].table_name
          /\ rows[i].column_name = all[i].column_name
          /\ \E f \in DOMAIN arg.colImpacts :
               /\ rows[i].file_path = arg.colImpacts[f].filePath
               /\ arrIncludes(arg.colImpacts[f][side], all[i])

\* C8: built from the same changed files, column delta and reconciled
\* impacts under two option strings, the two mirrors have the same
\* changed_files, asset_impacts, column_impacts, yml_column_changes and
\* summary, and they list every reconciled direct and indirect asset and
\* column record.
C8_MirrorIgnoresOptions ==
  pc = "generateComprehensiveJSONDone" =>
    /\ res.a.changed_files = res.b.changed_files
    /\ res.a.asset_impacts = res.b.asset_impacts
    /\ res.a.column_impacts = res.b.column_impacts
    /\ res.a.yml_column_changes = res.b.yml_column_changes
    /\ res.a.summary = res.b.summary
    /\ AssetRowsComplete(res.a.asset_impacts.direct, "direct")
    /\ AssetRowsComplete(res.a.asset_impacts.indirect, "indirect")
    /\ ColumnRowsComplete(res.a.column_impacts.direct, "direct")
    /\ ColumnRowsComplete(res.a.column_impacts.indirect, "indirect")
    /\ res.a.summary.total_direct_assets = totalOf(arg.impacts, "direct")
    /\ res.a.summary.total_indirect_assets = totalOf(arg.impacts, "indirect")
    /\ res.a.summary.total_direct_columns = totalOf(arg.colImpacts, "direct")
    /\ res.a.summary.total_indirect_columns = totalOf(arg.colImpacts, "indirect")

\* one mirror is built with every display option off, the other with all
\* on; both list the direct and indirect assets and columns
C8_Witness ==
  /\ pc = "generateComprehensiveJSONDone"
  /\ arg.keysA = <<"f","o","o">> /\ arg.keysB = NoString
  /\ parseConfigurableKeys(arg.keysA) = AllDisabled
  /\ res.a.asset_impacts.direct # <<>> /\ res.a.asset_impacts.indirect # <<>>
  /\ res.a.column_impacts.direct # <<>> /\ res.a.column_impacts.indirect # <<>>
  /\ res.a.metadata # res.b.metadata

----------------------------------------------------------------------------
(* The report (lines 709-854) under every combination of the eight flags   *)
(* that govern its two impact sections.                                    *)
aOne == Asset(<<"A">>, <<"1","-","2">>, "r1")
aTwo == Asset(<<"A">>, <<"3">>, "r3")

\* reconciled asset impacts of two matched files, the first without impacts
ReportImpacts ==
  {reconcileFiles(<<FileEntry(fItems, sItems, <<>>, <<>>),
                    FileEntry(fOrders, sOrders, d, i)>>) :
     d \in SeqsUpTo({aOne, aTwo}, MaxRows),
     i \in SeqsUpTo({aOne, aTwo}, MaxRows)}

ReportKeys == {k \in [Flags -> BOOLEAN] : ~k.showYmlColumnChanges}

InitReport ==
  /\ pc = "buildNewAnalysisReport"
  /\ Standby
  /\ arg \in {[impacts |-> m, colImpacts |-> c, keys |-> k] :
                m \in ReportImpacts, c \in MirrorColumnImpacts,
                k \in ReportKeys}

ApplyBuildNewAnalysisReport ==
  /\ pc = "buildNewAnalysisReport"
  /\ res' = buildNewAnalysisReport(arg.impacts, arg.colImpacts,
               RepoTwoFiles.changedFiles, arg.keys, RepoTwoFiles.createlinkUrl)
  /\ pc' = "buildNewAnalysisReportDone"
  /\ UNCHANGED <<runVars, arg>>

NextReport == ApplyBuildNewAnalysisReport

SpecReport == InitReport /\ [][NextReport]_vars

\* where a line of a kind and a text stands in a document
linesAt(doc, kind, text) ==
  {i \in DOMAIN doc : doc[i].kind = kind /\ doc[i].text = text}
Shows(doc, kind, text) == linesAt(doc, kind, text) # {}

\* the section heading a line stands under (0: above every heading)
headingOf(doc, i) ==
  LET hs == {h \in 1..i : doc[h].kind = "h3"}
  IN IF hs = {} THEN 0 ELSE CHOOSE h \in hs : \A g \in hs : g <= h

\* every line of the kind and text stands under the section of that title
Under(doc, kind, text, section) ==
  \A i \in linesAt(doc, kind, text) :
    headingOf(doc, i) # 0 /\ doc[headingOf(doc, i)].text = section

CountsBeforeLists(doc) ==
  \A i, j \in DOMAIN doc :
    (doc[i].kind = "count" /\ doc[j].kind = "details"
       /\ headingOf(doc, i) = headingOf(doc, j)) => i < j

sAssetSection == "Asset level Impacts"
sColumnSection == "Column level Impacts"

DirectAssetOnly ==
  parseConfigurableKeys(kDirectAssetCount \o <<",">> \o kDirectAssetList)

\* C11: the asset section (and the column section) of the report is there
\* exactly when one of its four flags is on; in a section a count line is
\* there exactly when its count flag is on, a detail list exactly when its
\* list flag is on and the list has an entry, and the count lines stand
\* before the detail lists; with the options
\* direct_asset_count,direct_asset_list the report holds the direct asset
\* count and list and nothing of indirect assets or of columns.
C11_OptionGating ==
  pc = "buildNewAnalysisReportDone" =>
    LET k == arg.keys
    IN /\ Shows(res, "h3", sAssetSection) <=>
            (k.showDirectAssetCount \/ k.showIndirectAssetCount
               \/ k.showDirectAssetList \/ k.showIndirectAssetList)
       /\ Shows(res, "h3", sColumnSection) <=>
            (k.showDirectColumnCount \/ k.showIndirectColumnCount
               \/ k.showDirectColumnList \/ k.showIndirectColumnList)
       /\ Shows(res, "count", "Total Directly Impacted") <=>
            k.showDirectAssetCount
       /\ Shows(res, "count", "Total Indirectly Impacted") <=>
            k.showIndirectAssetCount
       /\ Shows(res, "count", "Total Directly Impacted Columns") <=>
            k.showDirectColumnCount
       /\ Shows(res, "count", "Total Indirectly Impacted Columns") <=>
            k.showIndirectColumnCount
       /\ Shows(res, "details", "Directly Impacted Assets") <=>
            (k.showDirectAssetList /\ totalOf(arg.impacts, "direct") > 0)
       /\ Shows(res, "details", "Indirectly Impacted Assets") <=>
            (k.showIndirectAssetList /\ totalOf(arg.impacts, "indirect") > 0)
       /\ Shows(res, "details", "Directly Impacted Columns") <=>
            (k.showDirectColumnList /\ totalOf(arg.colImpacts, "direct") > 0)
       /\ Shows(res, "details", "Indirectly Impacted Columns") <=>
            (k.showIndirectColumnList
               /\ totalOf(arg.colImpacts, "indirect") > 0)
       /\ Under(res, "count", "Total Directly Impacted", sAssetSection)
       /\ Under(res, "count", "Total Indirectly Impacted", sAssetSection)
       /\ Under(res, "details", "Directly Impacted Assets", sAssetSection)
       /\ Under(res, "details", "Indirectly Impacted Assets", sAssetSection)
       /\ Under(res, "count", "Total Directly Impacted Columns", sColumnSection)
       /\ Under(res, "count", "Total Indirectly Impacted Columns",
                sColumnSection)
       /\ Under(res, "details", "Directly Impacted Columns", sColumnSection)
       /\ Under(res, "details", "Indirectly Impacted Columns", sColumnSection)
       /\ CountsBeforeLists(res)
       /\ k = DirectAssetOnly =>
            \A i \in DOMAIN res :
              res[i].kind \in {"h3", "count", "details"} =>
                res[i].text \in {"Changed Files", sAssetSection,
                                 "Total Directly Impacted",
                                 "Directly Impacted Assets"}

\* the options direct_asset_count,direct_asset_list over impacts that have
\* direct and indirect assets and direct columns
C11_Witness ==
  /\ pc = "buildNewAnalysisReportDone"
  /\ arg.keys = DirectAssetOnly
  /\ Shows(res, "count", "Total Directly Impacted")
  /\ Shows(res, "details", "Directly Impacted Assets")
  /\ totalOf(arg.impacts, "indirect") > 0
  /\ totalOf(arg.colImpacts, "direct") > 0

----------------------------------------------------------------------------
(* URL resolution (lines 625-706): both resolvers applied to one record    *)
(* and one configured base URL.                                            *)
AssetGroups == {"pipeline", "report", "data", "other", "undefined"}
TransformFlags == {"true", "false", "undefined"}

UrlRecord(conn, rid, group, transform) ==
  [name |-> <<"A">>, table_name |-> <<"T">>, column_name |-> sTax,
   connection_id |-> conn, redirect_id |-> rid, asset_group |-> group,
   is_transform |-> transform]

UrlRecords ==
  {UrlRecord(conn, rid, group, transform) :
     conn \in {NoString, <<"1">>}, rid \in {NoId, "r1"},
     group \in AssetGroups, transform \in TransformFlags}

\* a valid base URL that carries a port and a query
LocalBase ==
  [kind |-> "valid", origin |-> "http://localhost:8080", search |-> "?env=qa"]

BaseUrls == {AbsentBase, MalformedBase, ValidBase, LocalBase}

InitUrl ==
  /\ pc = "constructUrl"
  /\ Standby
  /\ arg \in {[item |-> r, baseUrl |-> b] : r \in UrlRecords, b \in BaseUrls}

ApplyConstructUrl ==
  /\ pc = "constructUrl"
  /\ res' = [item |-> constructItemUrl(arg.item, arg.baseUrl),
             column |-> constructColumnUrl(arg.item, arg.baseUrl),
             assetEntry |-> assetEntry(arg.item, arg.baseUrl),
             columnEntry |-> columnEntry(arg.item, arg.baseUrl),
             assetRows |-> assetRows(<<FileEntry(fOrders, sOrders,
                                                 <<arg.item>>, <<>>)>>,
                                     "direct", arg.baseUrl),
             columnRows |-> columnRows(<<ColumnEntry(fOrders, sOrders, <<>>,
                                                     <<arg.item>>)>>,
                                       "indirect", arg.baseUrl)]
  /\ pc' = "constructUrlDone"
  /\ UNCHANGED <<runVars, arg>>

NextUrl == ApplyConstructUrl

SpecUrl == InitUrl /\ [][NextUrl]_vars

IsPlaceholder(url) == url.href = "#"
\* the base URL with its path replaced
IsBaseWithPath(url, pathname) ==
  /\ url.href = "url"
  /\ url.origin = arg.baseUrl.origin
  /\ url.search = arg.baseUrl.search
  /\ url.pathname = pathname

\* the path C12 gives for each asset group
itemPathOf(item) ==
  IF item.asset_group = "pipeline"
    THEN IF item.is_transform = "true"
           THEN <<"observe", "pipeline", "transformation", item.redirect_id, "run">>
           ELSE <<"observe", "pipeline", "task", item.redirect_id, "run">>
  ELSE IF item.asset_group = "report"
    THEN <<"observe", "report", "worksheet", item.redirect_id, "overview">>
  ELSE <<"observe", "data", item.redirect_id, "measures">>

BaseUnusable == arg.baseUrl.kind \in {"absent", "malformed"}
NoLinkGroup == arg.item.asset_group \notin {"pipeline", "report", "data"}

\* C12 as stated: the asset-level resolver returns "#" exactly when the
\* base URL is absent or malformed, or the record lacks both connection_id
\* and redirect_id, or the asset group is none of pipeline, report, data;
\* otherwise the base URL with the path of the group.
C12_AsStated ==
  pc = "constructUrlDone" =>
    IF \/ BaseUnusable
       \/ (arg.item.connection_id = NoString /\ arg.item.redirect_id = NoId)
       \/ NoLinkGroup
      THEN IsPlaceholder(res.item)
      ELSE IsBaseWithPath(res.item, itemPathOf(arg.item))

\* C12: the asset-level resolver returns "#" exactly when the base URL is
\* absent or malformed, or the record lacks connection_id or lacks
\* redirect_id, or the asset group is none of pipeline, report, data;
\* otherwise the base URL with the path of the group.
C12_ItemUrl ==
  pc = "constructUrlDone" =>
    IF \/ BaseUnusable
       \/ arg.item.connection_id = NoString
       \/ arg.item.redirect_id = NoId
       \/ NoLinkGroup
      THEN IsPlaceholder(res.item)
      ELSE IsBaseWithPath(res.item, itemPathOf(arg.item))

\* a pipeline record with a redirect_id and no connection_id, under a valid
\* base URL, resolves to the placeholder
C12_Witness ==
  /\ pc = "constructUrlDone"
  /\ arg.baseUrl = ValidBase
  /\ arg.item.asset_group = "pipeline"
  /\ arg.item.connection_id = NoString
  /\ arg.item.redirect_id = "r1"
  /\ IsPlaceholder(res.item)

NoGroupMatch == arg.item.asset_group \notin {"pipeline", "data"}
taskPathOf(item) == <<"observe", "pipeline", "task", item.redirect_id, "run">>

\* C13 as stated: with a valid base URL and an asset group that is neither
\* pipeline nor data, the column-level resolver returns the pipeline/task
\* URL whenever redirect_id is present and "#" only when it is absent.
C13_AsStated ==
  (pc = "constructUrlDone" /\ ~BaseUnusable /\ NoGroupMatch) =>
    IF arg.item.redirect_id # NoId
      THEN IsBaseWithPath(res.column, taskPathOf(arg.item))
      ELSE IsPlaceholder(res.column)

\* C13: with a valid base URL and an asset group that is neither pipeline
\* nor data, the column-level resolver returns the pipeline/task URL when
\* the record has both a connection_id and a redirect_id, and "#" when
\* either of the two is absent.
C13_ColumnFallback ==
  (pc = "constructUrlDone" /\ ~BaseUnusable /\ NoGroupMatch) =>
    IF arg.item.connection_id # NoString /\ arg.item.redirect_id # NoId
      THEN IsBaseWithPath(res.column, taskPathOf(arg.item))
      ELSE IsPlaceholder(res.column)

\* a report column with a redirect_id and no connection_id resolves to the
\* placeholder
C13_Witness ==
  /\ pc = "constructUrlDone"
  /\ arg.baseUrl = LocalBase
  /\ arg.item.asset_group = "report"
  /\ arg.item.connection_id = NoString
  /\ arg.item.redirect_id = "r1"
  /\ IsPlaceholder(res.column)

\* a returned value: the placeholder or a URL of the base's origin
IsPlaceholderOrSameOrigin(url) ==
  \/ url = Placeholder
  \/ /\ url.href = "url"
     /\ arg.baseUrl.kind = "valid"
     /\ url.origin = arg.baseUrl.origin

\* C14: for every asset group, is_transform, presence of connection_id and
\* redirect_id and every base URL, the two resolvers return without
\* throwing, and each result is "#" or a URL with the scheme and authority
\* of the base URL.
C14_Total ==
  pc = "constructUrlDone" =>
    /\ res.item # Thrown /\ res.column # Thrown
    /\ IsPlaceholderOrSameOrigin(res.item)
    /\ IsPlaceholderOrSameOrigin(res.column)

\* a malformed base URL and a record with every field missing; both
\* resolvers return the placeholder
C14_Witness ==
  /\ pc = "constructUrlDone"
  /\ arg.baseUrl = MalformedBase
  /\ arg.item = UrlRecord(NoString, NoId, "undefined", "undefined")
  /\ res.item = Placeholder /\ res.column = Placeholder

----------------------------------------------------------------------------
(* The order of the external calls of a run.                               *)
LineageKinds == {"asset", "columnDirect", "columnIndirect"}
Awaiting ==
  {"getTasks", "asset", "columnDirect", "columnIndirect", "listComments",
   "updateComment", "createComment"}
awaitedKind == IF pc = "getTasks" THEN "tasks" ELSE pc

\* the call run is suspended on is the one issued last, so that every
\* earlier call has been answered
OnlyLastOutstanding ==
  pc \in Awaiting => (calls # <<>> /\ calls[Len(calls)].kind = awaitedKind)

\* a step issues at most one call, and while a call is awaited only the
\* step that handles its answer issues the next
IssuesAfterAnswer ==
  Len(calls') > Len(calls) =>
    /\ Len(calls') = Len(calls) + 1
    /\ SubSeq(calls', 1, Len(calls)) = calls
    /\ pc \in Awaiting => outcome'.kind = calls[Len(calls)].kind

lineageCalls == SelectSeq(calls, LAMBDA c : c.kind \in LineageKinds)
callsOfTask(t) == SelectSeq(calls, LAMBDA c : c.kind \in LineageKinds /\ c.task = t)
IsPrefix(s, t) == Len(s) <= Len(t) /\ s = SubSeq(t, 1, Len(s))

\* the lineage calls go through the matched tasks in their order, none left
\* out: task numbers never decrease along the calls and rise by one
InTaskOrder ==
  LET l == lineageCalls
  IN /\ l # <<>> => l[1].task = 1
     /\ \A i \in DOMAIN l :
          /\ l[i].task \in DOMAIN matchedTasks
          /\ i > 1 => l[i].task \in {l[i - 1].task, l[i - 1].task + 1}
          /\ l[i].task <= idx

QueryKinds(t) == [i \in DOMAIN callsOfTask(t) |-> callsOfTask(t)[i].kind]

\* one asset-level query, then the direct and the indirect column query
OneAssetQueryFirst ==
  \A t \in DOMAIN matchedTasks :
    IsPrefix(QueryKinds(t), <<"asset", "columnDirect", "columnIndirect">>)

\* an asset-level direct query, then an asset-level indirect query
TwoAssetQueries ==
  \A t \in DOMAIN matchedTasks :
    LET l == callsOfTask(t)
    IN \A q \in DOMAIN l :
         (l[q].kind = "asset" /\ depthOf(l[q].kind) = 10) =>
           \E p \in 1..(q - 1) : l[p].kind = "asset" /\ isDirectOf(l[p].kind)

\* C15 as stated: no two external calls are outstanding; the calls of
\* matched task i complete before any call of task i+1; within a task the
\* asset-level direct query precedes the asset-level indirect query
\* (depth 10), which precedes the direct column query, which precedes the
\* indirect column query.
C15_AsStated ==
  /\ OnlyLastOutstanding
  /\ InTaskOrder
  /\ TwoAssetQueries
  /\ \A t \in DOMAIN matchedTasks :
       LET k == QueryKinds(t)
       IN \A i, j \in DOMAIN k :
            (k[i] = "columnDirect" /\ k[j] = "columnIndirect") => i < j

\* C15: no two external calls are outstanding, a call being issued only by
\* the step that handles the answer to the one before; the calls of matched
\* task i complete before any call of task i+1; within a task there is one
\* asset-level query (depth 10, answering with the direct and the indirect
\* bucket), issued first, then the direct column query (no depth), then the
\* indirect column query (depth 10).
C15_SequentialCalls ==
  /\ [](OnlyLastOutstanding /\ InTaskOrder /\ OneAssetQueryFirst)
  /\ [](depthOf("asset") = 10 /\ depthOf("columnDirect") = 0
          /\ depthOf("columnIndirect") = 10)
  /\ [][IssuesAfterAnswer]_vars

\* the run is suspended on the asset-level query of the second matched
\* task, all three queries of the first task having been issued
C15_Witness ==
  /\ pc = "asset" /\ idx = 2
  /\ QueryKinds(1) = <<"asset", "columnDirect", "columnIndirect">>
  /\ QueryKinds(2) = <<"asset">>

----------------------------------------------------------------------------
(* Reruns: the workflow runs again on the same pull request after the run  *)
(* before it has ended.  The thread is what GitHub keeps between the runs; *)
(* everything else starts afresh.  A run whose comment calls did not all   *)
(* succeed is the last one followed here.                                  *)
chatter(n) ==
  [i \in 1..n |-> Comment(i, "User", "dev", <<Line("text", "LGTM", 0, <<>>)>>)]

\* the thread before the first run: empty, holding an earlier report, or a
\* discussion that leaves one place, or none, on the first page of a listing
RerunThreads == {<<>>, <<OldReport>>, chatter(PerPage - 1), chatter(PerPage)}

RerunRepos == {[RepoNoModels EXCEPT !.comments = c] : c \in RerunThreads}

InitReruns ==
  /\ pc = "start"
  /\ inputs \in RerunRepos
  /\ Fresh
  /\ arg = [run |-> 1]
  /\ res = <<>>

Rerun ==
  /\ pc = "done"
  /\ outcome.ok
  /\ arg.run < MaxRuns
  /\ arg' = [run |-> arg.run + 1]
  /\ pc' = "start"
  /\ changedColumns' = [added |-> <<>>, removed |-> <<>>]
  /\ tasks' = <<>>
  /\ matchedTasks' = <<>>
  /\ idx' = 0
  /\ fileImpacts' = <<>>
  /\ columnImpacts' = <<>>
  /\ accumulated' = [reconciled |-> FALSE, file |-> <<>>, column |-> <<>>]
  /\ calls' = <<>>
  /\ budget' = MaxRecords
  /\ outcome' = NoOutcome
  /\ received' = <<>>
  /\ summary' = <<>>
  /\ jsonData' = NoJson
  /\ emitted' = NotEmitted
  /\ UNCHANGED <<inputs, failed, thread, res>>

NextReruns ==
  \/ Start
  \/ TasksResponse
  \/ Reconcile
  \/ ListResponse
  \/ UpdateResponse
  \/ CreateResponse
  \/ Emit
  \/ Rerun

SpecReruns == InitReruns /\ [][NextReruns]_vars

ourComments == {i \in DOMAIN thread : IsOurComment(thread[i])}

\* C16 as stated: with runs on one pull request executed one after another
\* and their comment calls succeeding, the thread holds at most one comment
\* of the github-actions bot with the marker after any number of runs; a
\* run lists the comments before it writes, creates a comment only if the
\* listing holds no such comment and otherwise updates the existing one.
C16_AsStated ==
  /\ Cardinality(ourComments) <= 1
  /\ pc \in {"createComment", "updateComment"} =>
       /\ Len(calls) >= 2
       /\ calls[Len(calls) - 1].kind = "listComments"
  /\ pc = "createComment" => existingCommentOf(listComments(thread)) = 0
  /\ pc = "updateComment" =>
       /\ outcome.task = existingCommentOf(listComments(thread))
       /\ outcome.task # 0

\* what does hold: the same, as long as the listing shows the whole thread
C16_WhenThreadFitsOnePage ==
  Len(thread) <= PerPage => C16_AsStated

----------------------------------------------------------------------------
(* Failures of the comment calls.                                          *)
CommentCall == {"listComments", "updateComment", "createComment"}

\* what a step that handles a rejected comment call does
CommentFailureCaught ==
  (pc \in CommentCall /\ ~outcome'.ok) =>
    /\ failed' = failed
    /\ pc' = "emit"
    /\ thread' = thread
    /\ summary' = summary

\* the step after it writes the job summary and sets the output
SummaryEmitted ==
  pc = "emit" =>
    /\ pc' = "done"
    /\ failed' = failed
    /\ emitted' = [written |-> TRUE, jobSummary |-> summary,
                   impact_markdown |-> summary]

CommentRejected == outcome.kind \in CommentCall /\ ~outcome.ok

\* C17: a rejected listing, creation or update of the review comment is
\* caught: the step that handles it does not mark the run failed and goes
\* on to the output, and the run ends not failed with the Markdown summary
\* written to the job summary and set as the impact_markdown output.
C17_CommentFailureTolerated ==
  /\ [][CommentFailureCaught /\ SummaryEmitted]_vars
  /\ []((CommentRejected /\ pc # "done") => (pc = "emit" /\ ~failed))
  /\ []((CommentRejected /\ pc = "done") =>
          /\ ~failed
          /\ emitted.written
          /\ emitted.jobSummary = summary
          /\ emitted.impact_markdown = summary
          /\ summary # <<>> /\ summary[1] = Marker)

\* a run on a pull request has ended after the creation of its comment was
\* rejected; the thread is as it was and the summary has been emitted
C17_Witness ==
  /\ pc = "done"
  /\ outcome = Outcome("createComment", 0, FALSE)
  /\ thread = inputs.comments
  /\ ~failed
  /\ emitted.written /\ emitted.impact_markdown = summary

----------------------------------------------------------------------------
(* Self-references.                                                        *)
namesOfTasks(filePath) ==
  {matchedTasks[t].name : t \in tasksOfFile(filePath)}

NoSelfReference(f) ==
  LET own == namesOfTasks(fileImpacts[f].filePath)
      a == fileImpacts[f]
      c == objGet(columnImpacts, fileImpacts[f].filePath)
  IN /\ \A i \in DOMAIN a.direct : a.direct[i].name \notin own
     /\ \A i \in DOMAIN a.indirect : a.indirect[i].name \notin own
     /\ \A i \in DOMAIN c.direct : c.direct[i].table_name \notin own
     /\ \A i \in DOMAIN c.indirect : c.indirect[i].table_name \notin own

\* C18 as stated: after reconciliation no asset record of a file's direct or
\* indirect set is named like a task matched to that file, and no column
\* record of them has the table_name of such a task, also when more than
\* one task is matched to the file.
C18_AsStated ==
  Reconciled => \A f \in DOMAIN fileImpacts : NoSelfReference(f)

\* what does hold: the same for the files that one task is matched to
C18_SingleTaskFiles ==
  Reconciled =>
    \A f \in DOMAIN fileImpacts :
      Cardinality(tasksOfFile(fileImpacts[f].filePath)) = 1 => NoSelfReference(f)

----------------------------------------------------------------------------
(* Deduplication (lines 582-591 and 609-618) applied once and twice.       *)
\* a column record with the key of cTax and another payload
cTaxAgain ==
  columnRecord(Table(<<"T">>, <<"1">>, "r9"), [name |-> sTax, id |-> "c9"])

ColumnUniverse == {cTax, cTax2, cTaxAgain}

InitDedup ==
  /\ pc = "dedup"
  /\ Standby
  /\ arg \in {[assets |-> a, columns |-> c] :
                a \in SeqsUpTo(AssetUniverse, MaxRecords),
                c \in SeqsUpTo(ColumnUniverse, MaxRecords)}

ApplyDedup ==
  /\ pc = "dedup"
  /\ res' = [once |-> dedup(arg.assets),
             twice |-> dedup(dedup(arg.assets)),
             columnOnce |-> columnDedup(arg.columns),
             columnTwice |-> columnDedup(columnDedup(arg.columns))]
  /\ pc' = "dedupDone"
  /\ UNCHANGED <<runVars, arg>>

NextDedup == ApplyDedup

SpecDedup == InitDedup /\ [][NextDedup]_vars

\* C19: for every list of asset records and every list of column records,
\* deduplicating the deduplicated list gives the deduplicated list, the
\* same records in the same order.
C19_DedupIdempotent ==
  pc = "dedupDone" =>
    /\ res.twice = res.once
    /\ res.columnTwice = res.columnOnce

\* lists with a repeated key and two distinct keys: the first pass drops a
\* record and keeps the order, the second changes nothing
C19_Witness ==
  /\ pc = "dedupDone"
  /\ Len(arg.assets) = 2 /\ Len(res.once) = 1
  /\ arg.assets[1] # arg.assets[2]
  /\ res.once = <<arg.assets[1]>> /\ res.twice = res.once
  /\ arg.columns = <<cTax2, cTax>> /\ res.columnTwice = arg.columns

----------------------------------------------------------------------------
(* Two runs on one pull request at the same time (lines 1012-1067).  Each  *)
(* run has its own position and its own existingComment, kept in arg; the  *)
(* thread is the one GitHub keeps for both.  Both runs have built the same *)
(* report and have sent their listComments request.                        *)
Runs == {1, 2}

\* the thread before the runs: empty, a remark of a developer, an earlier report
ConcurrentRepos ==
  {[RepoNoModels EXCEPT !.comments = c] : c \in {<<>>, chatter(1), <<OldReport>>}}

AtListComments == [pc |-> "listComments", existing |-> 0, branch |-> "none", ok |-> TRUE]

InitConcurrent ==
  /\ pc = "concurrent"
  /\ inputs \in ConcurrentRepos
  /\ changedColumns = [added |-> <<>>, removed |-> <<>>]
  /\ tasks = <<>>
  /\ matchedTasks = <<>>
  /\ idx = 0
  /\ fileImpacts = <<>>
  /\ columnImpacts = <<>>
  /\ accumulated = [reconciled |-> TRUE, file |-> <<>>, column |-> <<>>]
  /\ calls = <<Call("listComments", 1), Call("listComments", 2)>>
  /\ failed = FALSE
  /\ budget = MaxRecords
  /\ outcome = NoOutcome
  /\ received = <<>>
  /\ summary = summaryOf(<<>>, <<>>, inputs.changedFiles,
                         processColumnChanges(inputs.changedFiles, inputs.blobs),
                         parseConfigurableKeys(inputs.keysString),
                         inputs.createlinkUrl)
  /\ jsonData = generateComprehensiveJSON(<<>>, <<>>, inputs.changedFiles,
                   processColumnChanges(inputs.changedFiles, inputs.blobs),
                   inputs.keysString, inputs.createlinkUrl)
  /\ thread = inputs.comments
  /\ emitted = NotEmitted
  /\ arg = [r \in Runs |-> AtListComments]
  /\ res = <<>>

sharedVars == <<pc, inputs, changedColumns, tasks, matchedTasks, idx, fileImpacts, columnImpacts, accumulated, failed, budget, outcome, received, summary, jsonData, emitted, res>>

\* lines 1020-1062 of run r
ListResponseOf(r) ==
  /\ pc = "concurrent"
  /\ arg[r].pc = "listComments"
  /\ \E ok \in BOOLEAN :
       LET existing == existingCommentOf(listComments(thread))
       IN IF ~ok
            THEN /\ arg' = [arg EXCEPT ![r] = [pc |-> commentErrorCaught.pc,
                                               existing |-> 0,
                                               branch |-> "none", ok |-> FALSE]]
                 /\ UNCHANGED calls
            ELSE IF existing # 0
              THEN /\ arg' = [arg EXCEPT ![r] = [pc |-> "updateComment",
                                                 existing |-> existing,
                                                 branch |-> "update", ok |-> TRUE]]
                   /\ calls' = Append(calls, Call("updateComment", r))
              ELSE /\ arg' = [arg EXCEPT ![r] = [pc |-> "createComment",
                                                 existing |-> 0,
                                                 branch |-> "create", ok |-> TRUE]]
                   /\ calls' = Append(calls, Call("createComment", r))
  /\ UNCHANGED <<sharedVars, thread>>

\* lines 1046-1051 of run r
UpdateResponseOf(r) ==
  /\ pc = "concurrent"
  /\ arg[r].pc = "updateComment"
  /\ \E ok \in BOOLEAN :
       /\ thread' = IF ok
                      THEN updateComment(thread, arg[r].existing,
                                         finalSummaryOf(summary, jsonData))
                      ELSE thread
       /\ arg' = [arg EXCEPT ![r].pc = "emit", ![r].ok = ok]
  /\ UNCHANGED <<sharedVars, calls>>

\* lines 1055-1060 of run r
CreateResponseOf(r) ==
  /\ pc = "concurrent"
  /\ arg[r].pc = "createComment"
  /\ \E ok \in BOOLEAN :
       /\ thread' = IF ok
                      THEN createComment(thread, inputs.author,
                                         finalSummaryOf(summary, jsonData))
                      ELSE thread
       /\ arg' = [arg EXCEPT ![r].pc = "emit", ![r].ok = ok]
  /\ UNCHANGED <<sharedVars, calls>>

\* lines 1069-1074 of run r; each run has a job summary and outputs of its own
EmitOf(r) ==
  /\ pc = "concurrent"
  /\ arg[r].pc = "emit"
  /\ arg' = [arg EXCEPT ![r].pc = "done"]
  /\ UNCHANGED <<sharedVars, calls, thread>>

NextConcurrent ==
  \/ \E r \in Runs : ListResponseOf(r)
  \/ \E r \in Runs : UpdateResponseOf(r)
  \/ \E r \in Runs : CreateResponseOf(r)
  \/ \E r \in Runs : EmitOf(r)

SpecConcurrent == InitConcurrent /\ [][NextConcurrent]_vars

\* the runs whose createComment call has succeeded
created == {r \in Runs : arg[r].branch = "create" /\ arg[r].pc \in {"emit", "done"} /\ arg[r].ok}
reportsAtStart == {i \in DOMAIN inputs.comments : IsOurComment(inputs.comments[i])}

\* C20: nothing keeps two runs at a time from both creating a comment: a
\* run whose listing is answered before any report is in the thread takes
\* the create branch, whatever the other run is doing, every successful
\* creation adds a comment, and so two runs that have both listed before
\* either created leave two comments of the bot with the marker.
C20_RaceDuplicates ==
  /\ \A r \in Runs :
       arg[r].branch = "create" <=>
         (arg[r].pc \in {"createComment", "emit", "done"} /\ arg[r].existing = 0
            /\ arg[r].branch # "none")
  /\ (\A r \in Runs : arg[r].pc = "createComment") => ourComments = {}
  /\ Cardinality(ourComments) = Cardinality(reportsAtStart) + Cardinality(created)
  /\ (reportsAtStart = {} /\ created = Runs) =>
       /\ Cardinality(ourComments) = 2
       /\ \A i \in ourComments :
            /\ thread[i].login = "github-actions[bot]"
            /\ thread[i].body[1] = Marker

\* both runs were answered an empty listing before either created its
\* comment, both creations succeeded, and the thread holds two reports
C20_Witness ==
  /\ pc = "concurrent"
  /\ inputs.comments = <<>>
  /\ \A r \in Runs : arg[r].pc = "done" /\ arg[r].branch = "create" /\ arg[r].ok
  /\ calls = <<Call("listComments", 1), Call("listComments", 2),
               Call("createComment", 1), Call("createComment", 2)>>
  /\ Len(thread) = 2 /\ Cardinality(ourComments) = 2

----------------------------------------------------------------------------
(* What becomes of the records a task received.                            *)
finalKeys(t) ==
  assetKeys(fileOfTask(t).direct) \cup assetKeys(fileOfTask(t).indirect)

receivedBy(t) == received[t].direct \o received[t].indirect

\* C21 as stated: for every matched task, every asset record the lineage
\* service returned in its direct or indirect bucket under another name
\* than the task's has its identity key (name, connection_id, asset_name)
\* in the final direct or the final indirect set of the task's file.
C21_AsStated ==
  Reconciled =>
    \A t \in DOMAIN received :
      \A i \in DOMAIN receivedBy(t) :
        receivedBy(t)[i].name # matchedTasks[t].name =>
          assetKey(receivedBy(t)[i]) \in finalKeys(t)

----------------------------------------------------------------------------
(* Which records reconciliation takes out of a file's sets.                *)
\* the positions of the records of a list that are not in the reconciled list
droppedFrom(old, new) ==
  {i \in DOMAIN old : \A j \in DOMAIN new : new[j] # old[i]}

\* a record taken out of a list has its identity tuple earlier in the list
\* or, for the indirect list, in the direct list
TakenOutForEqualTuple(old, new, others, Key(_)) ==
  \A i \in droppedFrom(old, new) :
    \/ \E j \in 1..(i - 1) : Key(old[j]) = Key(old[i])
    \/ \E j \in DOMAIN others : Key(others[j]) = Key(old[i])

\* C22 as stated: reconciliation drops an asset record as a duplicate, or
\* removes it from the indirect set, only if another record has the same
\* name, the same connection_id and the same asset_name, and a column
\* record only if another has the same table_name, column_name and
\* connection_id, whatever characters the values hold, '-' included.
C22_AsStated ==
  Reconciled =>
    /\ \A f \in DOMAIN fileImpacts :
         /\ TakenOutForEqualTuple(accumulated.file[f].direct,
                                  fileImpacts[f].direct, <<>>, assetKey)
         /\ TakenOutForEqualTuple(accumulated.file[f].indirect,
                                  fileImpacts[f].indirect,
                                  accumulated.file[f].direct, assetKey)
    /\ \A f \in DOMAIN columnImpacts :
         /\ TakenOutForEqualTuple(accumulated.column[f].direct,
                                  columnImpacts[f].direct, <<>>, columnKey)
         /\ TakenOutForEqualTuple(accumulated.column[f].indirect,
                                  columnImpacts[f].indirect,
                                  accumulated.column[f].direct, columnKey)

\* what does hold: the same with the key strings of lines 571 and 599 in
\* the place of the identity tuples
C22_EqualKeyText ==
  Reconciled =>
    /\ \A f \in DOMAIN fileImpacts :
         /\ TakenOutForEqualTuple(accumulated.file[f].direct,
                                  fileImpacts[f].direct, <<>>, uniqueKey)
         /\ TakenOutForEqualTuple(accumulated.file[f].indirect,
                                  fileImpacts[f].indirect,
                                  accumulated.file[f].direct, uniqueKey)
    /\ \A f \in DOMAIN columnImpacts :
         /\ TakenOutForEqualTuple(accumulated.column[f].direct,
                                  columnImpacts[f].direct, <<>>, columnUniqueKey)
         /\ TakenOutForEqualTuple(accumulated.column[f].indirect,
                                  columnImpacts[f].indirect,
                                  accumulated.column[f].direct, columnUniqueKey)

----------------------------------------------------------------------------
(* The URLs in the outputs: the list entries of the report (lines 743-848) *)
(* and the redirect_url fields of the mirror (lines 945-998), for one      *)
(* record as an asset-level and as a column-level impact.                  *)
\* a URL that reaches an output names the record's target
NamesTarget(url) ==
  /\ arg.item.redirect_id # NoId
  /\ \E i \in DOMAIN url.pathname : url.pathname[i] = arg.item.redirect_id

HyperlinkNamesTarget(entry) == entry.link => NamesTarget(entry.url)
RedirectUrlNamesTarget(rows) ==
  \A i \in DOMAIN rows :
    rows[i].redirect_url.href # "#" => NamesTarget(rows[i].redirect_url)

\* C23 as stated: whenever a list entry of the report is rendered as a
\* hyperlink, or a redirect_url of the mirror differs from "#", the record
\* has a redirect_id and the path of the URL holds it, for asset-level and
\* for column-level records.
C23_AsStated ==
  pc = "constructUrlDone" =>
    /\ HyperlinkNamesTarget(res.assetEntry)
    /\ RedirectUrlNamesTarget(res.assetRows)
    /\ HyperlinkNamesTarget(res.columnEntry)
    /\ RedirectUrlNamesTarget(res.columnRows)

\* what does hold: the same for the asset-level records alone
C23_AssetLevel ==
  pc = "constructUrlDone" =>
    /\ HyperlinkNamesTarget(res.assetEntry)
    /\ RedirectUrlNamesTarget(res.assetRows)

====
